---- MODULE Spec2Model ----
(***************************************************************************)
(* Harmony4 media transport: the H4MK container (writer and reader) and    *)
(* the living cipher (ratcheting AEAD with a skipped-key cache).           *)
(*                                                                         *)
(* Byte strings are sequences of naturals below 256.  Cryptographic        *)
(* primitives are idealised: SHA-256 and HKDF are injective (a digest or a *)
(* derived key is represented by the term it was computed from), and an    *)
(* AEAD ciphertext opens only under the key, nonce and associated data it  *)
(* was sealed with.                                                        *)
(***************************************************************************)
EXTENDS Integers, Sequences, FiniteSets, TLC

VARIABLES
    \* ---- container (writer / reader) ----
    pcC,            \* "idle" | "built" | "parsed" | "verified"
    blob,           \* bytes returned by build_h4mk
    rd_chunks,      \* H4MKReader.chunks, as the ChunkInfo records in parse order
    verify_result,  \* value returned by H4MKReader.verify_integrity
    built_from,     \* the arguments build_h4mk was called with
    \* ---- living cipher ----
    snd,            \* sender LivingState
    rcv,            \* receiver LivingState
    sent,           \* sequence of (header, ciphertext) returned by encrypt
    last,           \* outcome of the latest encrypt / decrypt call
    ooo_done,       \* (header, ciphertext) pairs already served on an out-of-order path
    ncalls,         \* number of decrypt calls made so far
    \* ---- further components ----
    twin,           \* a second sender built from the same secret, and what it returned
    bind,           \* the CoreContext a block is encrypted under and the one it is decrypted under
    call            \* the arguments of a call of a function of the index, GOP, compression or loader modules, and its result

containerVars == <<pcC, blob, rd_chunks, verify_result, built_from>>
cipherVars == <<snd, rcv, sent, last, ooo_done, ncalls>>
auxVars == <<twin, bind, call>>
vars == <<pcC, blob, rd_chunks, verify_result, built_from, snd, rcv, sent, last, ooo_done, ncalls, twin, bind, call>>

----------------------------------------------------------------------------
(* Bounds of the model *)

MaxBlocks == 2        \* CORE blocks per container
MaxSeek == 1          \* entries in the flat SEEK table

----------------------------------------------------------------------------
(* bytes-codec *)

Pow2(n) == 2 ^ n

\* struct.pack(">I", n)
U32(n) == << (n \div Pow2(24)) % 256, (n \div Pow2(16)) % 256, (n \div Pow2(8)) % 256, n % 256 >>

\* struct.pack(">H", n)
U16(n) == << (n \div Pow2(8)) % 256, n % 256 >>

\* struct.pack(">Q", n), for the values below 2^31 that occur here (the high
\* four bytes are zero)
u64(n) == <<0, 0, 0, 0>> \o U32(n)

\* struct.unpack(">I", b)
ReadU32(b) == b[1] * Pow2(24) + b[2] * Pow2(16) + b[3] * Pow2(8) + b[4]

\* struct.unpack(">H", b)
ReadU16(b) == b[1] * Pow2(8) + b[2]

\* F applied to the value of v: v is computed once, where a LET definition is
\* computed again wherever its name is used
Once(v, F(_)) == CHOOSE r \in { F(x) : x \in {v} } : TRUE

\* data[a:b] with Python's 0-based, end-exclusive, clamped slicing
Slice(data, a, b) ==
    LET hi == IF b > Len(data) THEN Len(data) ELSE b
    IN  IF a >= hi THEN << >> ELSE SubSeq(data, a + 1, hi)

RECURSIVE Concat(_)
\* b"".join(parts)
Concat(parts) == IF parts = << >> THEN << >> ELSE Head(parts) \o Concat(Tail(parts))

RECURSIVE Dec(_)
\* str(n) of a natural number, as character codes
Dec(n) == IF n < 10 THEN <<48 + n>> ELSE Dec(n \div 10) \o <<48 + (n % 10)>>

\* bytes([v]) * n
Repeat(v, n) == [i \in 1..n |-> v]

RECURSIVE CrcRange(_, _, _)
\* position-weighted byte sum of data[lo..hi] (1-based, inclusive), halving the range
CrcRange(data, lo, hi) ==
    IF lo > hi THEN 0
    ELSE IF lo = hi THEN (lo * (data[lo] + 1)) % Pow2(16)
    ELSE LET mid == (lo + hi) \div 2
         IN  (CrcRange(data, lo, mid) + CrcRange(data, mid + 1, hi)) % Pow2(16)

\* zlib.crc32(data) & 0xFFFFFFFF: an unsigned checksum of the payload, stored in
\* four bytes (a position-weighted sum of 16 significant bits stands for the
\* CRC-32 polynomial)
_crc32(data) == Once(data, LAMBDA d : CrcRange(d, 1, Len(d)))

\* hashlib.sha256(b).digest(): idealised as injective, the digest of b is
\* represented by b itself (two digests are equal iff their inputs are equal)
sha256(b) == b

----------------------------------------------------------------------------
(* compressor: the reference engine (run-length pairs) *)

ALIGN == 256
RUN_MAX == 255

\* variant of the inner loop without the cap on the run length
RunLen_uncapped(data, i) ==
    LET Continues(run_len) ==
            i + run_len < Len(data) /\ data[i + run_len + 1] = data[i + 1]
    IN  CHOOSE run_len \in 1..Len(data) :
            /\ ~Continues(run_len)
            /\ \A r \in 1..(run_len - 1) : Continues(r)

\* inner while loop of compress_rle_delta: the run length it stops at for the run
\* starting at i (0-based): the first run_len >= 1 at which the loop condition
\* i + run_len < len(data) and data[i + run_len] == val and run_len < 255 fails
RunLen(data, i) ==
    LET Continues(run_len) ==
            i + run_len < Len(data) /\ data[i + run_len + 1] = data[i + 1] /\ run_len < RUN_MAX
    IN  CHOOSE run_len \in 1..RUN_MAX :
            /\ ~Continues(run_len)
            /\ \A r \in 1..(run_len - 1) : Continues(r)

RECURSIVE RleFrom(_, _)
RleFrom(data, i) ==
    IF i >= Len(data) THEN << >>
    ELSE LET n == RunLen(data, i)
         IN  <<data[i + 1], n>> \o RleFrom(data, i + n)

compress_rle_delta(data) == IF data = << >> THEN << >> ELSE RleFrom(data, 0)

\* GeometricReferenceCompressor.compress accepts b"" and multiples of 256 bytes
CompressAccepts(data) == Len(data) = 0 \/ Len(data) % ALIGN = 0

compress(data) == IF Len(data) = 0 THEN << >> ELSE compress_rle_delta(data)

RECURSIVE UnRleFrom(_, _)
\* the for loop of decompress_rle_delta from offset i (0-based, even)
UnRleFrom(data, i) ==
    IF i >= Len(data) THEN << >>
    ELSE Repeat(data[i + 1], data[i + 2]) \o UnRleFrom(data, i + 2)

decompress_rle_delta(data) == IF data = << >> THEN << >> ELSE UnRleFrom(data, 0)

\* GeometricReferenceCompressor.decompress accepts b"" and even lengths
DecompressAccepts(data) == Len(data) = 0 \/ Len(data) % 2 = 0

decompress(data) == IF Len(data) = 0 THEN << >> ELSE decompress_rle_delta(data)

\* GeometricReferenceCompressor.info(), as the three values build_h4mk folds
\* into META: engine, engine_id, fingerprint ("unknown" is the default of .get)
EngineRef == [engine |-> "geometric-reference", engine_id |-> "unknown", fingerprint |-> "unknown"]

load_engine == EngineRef

----------------------------------------------------------------------------
(* container-writer *)

TagCORE == <<67, 79, 82, 69>>
TagSEEK == <<83, 69, 69, 75>>
TagMETA == <<77, 69, 84, 65>>
TagSAFE == <<83, 65, 70, 69>>
TagVERI == <<86, 69, 82, 73>>
MAGIC == <<72, 52, 77, 75>>
VERSION == 1
CHUNK_HEADER_SIZE == 12

\* Chunk.pack
Pack(c) == c.tag \o U32(Len(c.payload)) \o U32(_crc32(c.payload)) \o c.payload

Chunk(tag, payload) == [tag |-> tag, payload |-> payload]

RECURSIVE PackSeekFrom(_)
PackSeekFrom(entries) ==
    IF entries = << >> THEN << >>
    ELSE u64(Head(entries)[1]) \o u64(Head(entries)[2]) \o PackSeekFrom(Tail(entries))

pack_seek_entries(entries) == U32(Len(entries)) \o PackSeekFrom(entries)

\* One byte per distinct string value that can occur in the compression object
StrCode(s) ==
    CASE s = "geometric-reference" -> <<1>>
      [] s = "unknown" -> <<0>>
      [] s = "core" -> <<3>>
      [] s = "unverified" -> <<4>>
      [] s = "h4core-v1" -> <<5>>
      [] s = "h4core-v0" -> <<6>>
      [] s = "aa" -> <<7>>
      [] s = "bb" -> <<8>>
      [] OTHER -> <<2>>

\* pack_meta: compact JSON.  A dict is given by the bytes of its user fields;
\* the injected "compression" object follows them, field by field.
pack_meta(fields) == <<123>> \o fields \o <<125>>

\* variant: only the engine name is written
CompressionObject_name_only(info) == <<99>> \o StrCode(info.engine)

CompressionObject(info) ==
    <<99>> \o StrCode(info.engine) \o StrCode(info.engine_id) \o StrCode(info.fingerprint)

RECURSIVE CoreChunks(_)
CoreChunks(core_blocks) ==
    IF core_blocks = << >> THEN << >>
    ELSE <<Chunk(TagCORE, compress(Head(core_blocks)))>> \o CoreChunks(Tail(core_blocks))

RECURSIVE PackAll(_)
PackAll(cs) == IF cs = << >> THEN << >> ELSE Pack(Head(cs)) \o PackAll(Tail(cs))

\* variant: the SEEK table is written before the CORE chunks
PreVeriChunks_seek_first(core_blocks, seek_entries, meta, safe) ==
    << Chunk(TagSEEK, pack_seek_entries(seek_entries)) >>
      \o CoreChunks(core_blocks)
      \o << Chunk(TagMETA, pack_meta(meta \o CompressionObject(load_engine))),
            Chunk(TagSAFE, pack_meta(safe)) >>

\* chunks of build_h4mk before VERI is appended
PreVeriChunks(core_blocks, seek_entries, meta, safe) ==
    CoreChunks(core_blocks)
      \o << Chunk(TagSEEK, pack_seek_entries(seek_entries)),
            Chunk(TagMETA, pack_meta(meta \o CompressionObject(load_engine))),
            Chunk(TagSAFE, pack_meta(safe)) >>

build_chunks(core_blocks, seek_entries, meta, safe) ==
    LET prior == PreVeriChunks(core_blocks, seek_entries, meta, safe)
        pre_veri == PackAll(prior)
        veri_payload == sha256(pre_veri)
    IN  prior \o << Chunk(TagVERI, veri_payload) >>

build_h4mk(core_blocks, seek_entries, meta, safe) ==
    MAGIC \o U16(VERSION) \o U16(0) \o PackAll(build_chunks(core_blocks, seek_entries, meta, safe))

----------------------------------------------------------------------------
(* container-reader *)

RECURSIVE ParseFrom(_, _, _)
\* the while loop of H4MKReader._parse; result [ok, chunks]
ParseFrom(data, pos, acc) ==
    IF ~(pos < Len(data)) THEN [ok |-> TRUE, chunks |-> acc]
    ELSE IF pos + CHUNK_HEADER_SIZE > Len(data) THEN [ok |-> TRUE, chunks |-> acc]
    ELSE LET tag == Slice(data, pos, pos + 4)
             size == ReadU32(Slice(data, pos + 4, pos + 8))
             crc == ReadU32(Slice(data, pos + 8, pos + 12))
             payload_offset == pos + 12
         IN  IF payload_offset + size > Len(data) THEN [ok |-> FALSE, chunks |-> acc]
             ELSE IF _crc32(Slice(data, payload_offset, payload_offset + size)) # crc
                  THEN [ok |-> FALSE, chunks |-> acc]
             ELSE ParseFrom(data, payload_offset + size,
                            Append(acc, [tag |-> tag, offset |-> payload_offset,
                                         size |-> size, crc |-> crc]))

_parse(data) ==
    IF Len(data) < 8 THEN [ok |-> FALSE, chunks |-> << >>]
    ELSE IF Slice(data, 0, 4) # MAGIC THEN [ok |-> FALSE, chunks |-> << >>]
    ELSE IF ReadU16(Slice(data, 4, 6)) # 1 THEN [ok |-> FALSE, chunks |-> << >>]
    ELSE ParseFrom(data, 8, << >>)

\* self.chunks.get(tag, []): the ChunkInfo of that tag, in parse order
ChunksOf(chunks, tag) == SelectSeq(chunks, LAMBDA c : c.tag = tag)

RECURSIVE Payloads(_, _)
Payloads(data, infos) ==
    IF infos = << >> THEN << >>
    ELSE <<Slice(data, Head(infos).offset, Head(infos).offset + Head(infos).size)>>
           \o Payloads(data, Tail(infos))

get_chunks(data, chunks, tag) == Payloads(data, ChunksOf(chunks, tag))

\* the bytes verify_integrity feeds to its hasher
VerifyHashInput(data, chunks) ==
    Concat(get_chunks(data, chunks, TagCORE)) \o Concat(get_chunks(data, chunks, TagSEEK))
      \o Concat(get_chunks(data, chunks, TagMETA)) \o Concat(get_chunks(data, chunks, TagSAFE))

\* len(veri) != 32: every digest has 32 bytes; a digest is represented by its
\* input here, so the test is on being a digest, which a VERI payload written
\* by sha256 always is
DigestLenOk(veri) == TRUE

verify_integrity(data, chunks) ==
    LET veri_chunks == get_chunks(data, chunks, TagVERI)
    IN  IF veri_chunks = << >> THEN TRUE
        ELSE IF ~DigestLenOk(veri_chunks[1]) THEN FALSE
        ELSE veri_chunks[1] = sha256(VerifyHashInput(data, chunks))

----------------------------------------------------------------------------
(* container inputs *)

\* a block of ALIGN bytes: k bytes a, then b
MakeBlock(a, k, b) == Repeat(a, k) \o Repeat(b, ALIGN - k)

BlockChoices == { << >> } \cup { MakeBlock(a, k, 1) : a \in {0, 1}, k \in {128, 256} }

RECURSIVE SeqsUpTo(_, _)
SeqsUpTo(S, n) ==
    IF n = 0 THEN { << >> }
    ELSE LET shorter == SeqsUpTo(S, n - 1)
         IN  shorter \cup { Append(s, x) : s \in {t \in shorter : Len(t) = n - 1}, x \in S }

SeekChoices == SeqsUpTo({ <<0, 0>>, <<1000, 40>> }, MaxSeek)
MetaChoices == { << >>, <<112>> }
SafeChoices == { << >>, <<116>> }

----------------------------------------------------------------------------
(* living cipher: parameters of the modelled states *)

OooWindow == 1            \* LivingState.ooo_window of the receiver
RootRatchetEvery == 2     \* LivingState.root_ratchet_every of both states
MaxSend == 2              \* encrypt calls made by the sender
MaxCalls == 3             \* decrypt calls made on the receiver
MaxCounter == 3           \* largest counter an injected header carries

SUITE == "H4-LIVING-AESGCM-HKDF-SHA256-v3"
MAGIC_V3 == "H4LC3"

\* An absent value (None) is the empty tuple, a present one a 1-tuple.
None == << >>
Some(x) == <<x>>
NoAad == << >>

----------------------------------------------------------------------------
(* living cipher: primitives *)

\* hkdf(shared_secret, info = context + "|root")
RootInit == << >>

\* hkdf(root, info = label): a chain key is the term (root, label, steps taken)
ChainKey(root, label) == [root |-> root, label |-> label, steps |-> << >>]

\* variant: the chain key is returned as it was given
ratchet_step_stuck(chain_key, counter) ==
    [ next_ck |-> chain_key,
      mk |-> [ck |-> chain_key, n |-> counter] ]

\* ratchet_step(chain_key, ctx, counter) -> (next_ck, msg_key)
ratchet_step(chain_key, counter) ==
    [ next_ck |-> [chain_key EXCEPT !.steps = Append(@, counter)],
      mk |-> [ck |-> chain_key, n |-> counter] ]

\* hkdf(mk, info = "nonce|" + u64(counter), length = 12)
Nonce(mk, counter) == [mk |-> mk, n |-> counter]

\* update_transcript: sha256(transcript + sha256(header) + sha256(ciphertext))
update_transcript(transcript, header, ciphertext) ==
    Append(transcript, [h |-> header, c |-> ciphertext])

\* X25519: dh_priv.exchange(remote_pub); both sides of a key pair are named by
\* the same number, and the shared secret is symmetric in the two pairs
DhShared(priv, pub) == IF priv < pub[1] THEN <<priv, pub[1]>> ELSE <<pub[1], priv>>

_pub_bytes(priv) == Some(priv)

_mix_root(root_key, dh_shared) == Append(root_key, dh_shared)

_derive_chains_from_root(root_key) ==
    [ck_s |-> ChainKey(root_key, "suite|ck_send"), ck_r |-> ChainKey(root_key, "suite|ck_recv")]

\* variant: the test counter > 0 is missing
_should_root_ratchet_from_zero(counter, every) == every > 0 /\ counter % every = 0

_should_root_ratchet(counter, every) == every > 0 /\ counter > 0 /\ counter % every = 0

\* AESGCM(mk).encrypt(nonce, plaintext, aad + header)
AeadSeal(mk, nonce, plaintext, ad) ==
    [key |-> mk, nonce |-> nonce, pt |-> plaintext, ad |-> ad, tag_ok |-> TRUE]

\* AESGCM(mk).decrypt(nonce, ciphertext, aad + header) succeeds
AeadOpens(mk, nonce, ciphertext, ad) ==
    /\ ciphertext.tag_ok
    /\ ciphertext.key = mk
    /\ ciphertext.nonce = nonce
    /\ ciphertext.ad = ad

Ad(aad, header) == [aad |-> aad, header |-> header]

----------------------------------------------------------------------------
(* living cipher: state and header *)

init_from_shared_secret(priv) ==
    [ root_key |-> RootInit,
      chain_key_send |-> ChainKey(RootInit, "ctx|ck_send"),
      chain_key_recv |-> ChainKey(RootInit, "ctx|ck_recv"),
      send_counter |-> 0,
      recv_counter |-> 0,
      transcript |-> << >>,
      skipped_keys |-> << >>,
      dh_priv |-> priv,
      remote_dh_pub |-> None,
      root_ratchet_every |-> RootRatchetEvery ]

\* the header as framed on the wire: magic, suite, counter, prev_transcript,
\* flags, then the bytes after the flags byte (dh_pub when bit 0 is set)
_build_header_v3(suite, counter, prev_transcript, dh_pub) ==
    [ magic |-> MAGIC_V3, suite |-> suite, counter |-> counter,
      prev_transcript |-> prev_transcript,
      flags |-> IF dh_pub # None THEN 1 ELSE 0,
      extra |-> IF dh_pub # None THEN dh_pub ELSE << >> ]

_parse_header_v3(header) ==
    IF header.magic # MAGIC_V3
    THEN [ok |-> FALSE, err |-> "not v3 header"]
    ELSE IF header.flags % 2 = 1 /\ Len(header.extra) < 1
    THEN [ok |-> FALSE, err |-> "missing dh_pub"]
    ELSE [ ok |-> TRUE, err |-> "", suite |-> header.suite, counter |-> header.counter,
           prev_transcript |-> header.prev_transcript, flags |-> header.flags,
           dh_pub |-> IF header.flags % 2 = 1 THEN Some(header.extra[1]) ELSE None ]

----------------------------------------------------------------------------
(* living cipher: out-of-order helpers *)

Max(a, b) == IF a > b THEN a ELSE b

Remove(skipped, counter) == [k \in (DOMAIN skipped) \ {counter} |-> skipped[k]]

_evict_skipped(state) ==
    LET low == Max(0, state.recv_counter - OooWindow)
        high == state.recv_counter + OooWindow
        keep == {k \in DOMAIN state.skipped_keys : ~(k < low \/ k > high)}
    IN  [state EXCEPT !.skipped_keys = [k \in keep |-> state.skipped_keys[k]]]

\* the chain key the loop of _precompute_skipped_keys holds when it reaches i
TempCk(state, i) ==
    [state.chain_key_recv EXCEPT
        !.steps = @ \o [j \in 1..(i - state.recv_counter) |-> state.recv_counter + j - 1]]

\* the loop of _precompute_skipped_keys: a key for every i in recv_counter..target
PrecomputeInsert(state, target_counter) ==
    LET new == state.recv_counter..target_counter
    IN  [state EXCEPT !.skipped_keys =
            [k \in (DOMAIN @) \cup new |->
                IF k \in new THEN ratchet_step(TempCk(state, k), k).mk ELSE @[k]]]

_precompute_skipped_keys(state, target_counter) ==
    _evict_skipped(PrecomputeInsert(state, target_counter))

----------------------------------------------------------------------------
(* living cipher: encrypt *)

\* variant: the header is built after send_counter was incremented
encrypt_counter_after(state, plaintext, aad, fresh) ==
    LET step == ratchet_step(state.chain_key_send, state.send_counter)
        nonce == Nonce(step.mk, state.send_counter)
        header == _build_header_v3(SUITE, state.send_counter + 1, state.transcript, None)
        ct == AeadSeal(step.mk, nonce, plaintext, Ad(aad, header))
    IN  [ st |-> [state EXCEPT !.chain_key_send = step.next_ck,
                               !.transcript = update_transcript(state.transcript, header, ct),
                               !.send_counter = state.send_counter + 1],
          header |-> header,
          ct |-> ct ]

\* variant: every header carries the public key of the state's current key pair
encrypt_always_dh(state, plaintext, aad, fresh) ==
    LET ratchet == _should_root_ratchet(state.send_counter, state.root_ratchet_every)
        s1 == IF ratchet THEN [state EXCEPT !.dh_priv = fresh] ELSE state
        dh_pub == _pub_bytes(s1.dh_priv)
        step == ratchet_step(s1.chain_key_send, s1.send_counter)
        nonce == Nonce(step.mk, s1.send_counter)
        header == _build_header_v3(SUITE, s1.send_counter, s1.transcript, dh_pub)
        ct == AeadSeal(step.mk, nonce, plaintext, Ad(aad, header))
    IN  [ st |-> [s1 EXCEPT !.chain_key_send = step.next_ck,
                            !.transcript = update_transcript(s1.transcript, header, ct),
                            !.send_counter = s1.send_counter + 1],
          header |-> header,
          ct |-> ct ]

\* encrypt(state, plaintext, aad); fresh is the key pair X25519PrivateKey.generate()
\* returns when the root ratchet fires
encrypt(state, plaintext, aad, fresh) ==
    LET ratchet == _should_root_ratchet(state.send_counter, state.root_ratchet_every)
        dh_pub == IF ratchet THEN _pub_bytes(fresh) ELSE None
        s1 == IF ratchet THEN [state EXCEPT !.dh_priv = fresh] ELSE state
        s2 == IF ratchet /\ s1.remote_dh_pub # None
              THEN LET mixed == _mix_root(s1.root_key, DhShared(s1.dh_priv, s1.remote_dh_pub))
                   IN  [s1 EXCEPT !.root_key = mixed,
                                  !.chain_key_send = _derive_chains_from_root(mixed).ck_s,
                                  !.chain_key_recv = _derive_chains_from_root(mixed).ck_r,
                                  !.skipped_keys = << >>]
              ELSE s1
        step == ratchet_step(s2.chain_key_send, s2.send_counter)
        nonce == Nonce(step.mk, s2.send_counter)
        header == _build_header_v3(SUITE, s2.send_counter, s2.transcript, dh_pub)
        ct == AeadSeal(step.mk, nonce, plaintext, Ad(aad, header))
    IN  [ st |-> [s2 EXCEPT !.chain_key_send = step.next_ck,
                            !.transcript = update_transcript(s2.transcript, header, ct),
                            !.send_counter = s2.send_counter + 1],
          header |-> header,
          ct |-> ct ]

----------------------------------------------------------------------------
(* living cipher: decrypt *)

\* the call raises: the state is left as st, no plaintext is returned
Raise(st, err, path) == [st |-> st, ok |-> FALSE, err |-> err, pt |-> None, path |-> path]

Return(st, pt, path) == [st |-> st, ok |-> TRUE, err |-> "", pt |-> pt, path |-> path]

\* a dh_pub in the header is mixed in as soon as the header is parsed
DhMix(state, dh_pub) ==
    IF dh_pub = None THEN state
    ELSE LET mixed == _mix_root(state.root_key, DhShared(state.dh_priv, dh_pub))
         IN  [state EXCEPT !.remote_dh_pub = dh_pub,
                           !.root_key = mixed,
                           !.chain_key_send = _derive_chains_from_root(mixed).ck_s,
                           !.chain_key_recv = _derive_chains_from_root(mixed).ck_r,
                           !.skipped_keys = << >>]

\* out-of-window old replay
IsOldReplay(state, counter) == counter < state.recv_counter - OooWindow

\* variant: a counter equal to recv_counter is never taken from the cache
InSkipped_not_current(state, counter) ==
    counter \in DOMAIN state.skipped_keys /\ counter # state.recv_counter

\* counter in state.skipped_keys
InSkipped(state, counter) == counter \in DOMAIN state.skipped_keys

\* variant: the cached path also commits the message to the transcript
DecryptCached_commits(state, counter, header, ciphertext, aad) ==
    LET mk == state.skipped_keys[counter]
        s1 == [state EXCEPT !.skipped_keys = Remove(@, counter)]
    IN  IF AeadOpens(mk, Nonce(mk, counter), ciphertext, Ad(aad, header))
        THEN Return([s1 EXCEPT !.transcript = update_transcript(@, header, ciphertext)],
                    ciphertext.pt, "cached")
        ELSE Raise(s1, "InvalidTag", "cached")

\* cached out-of-order key: popped, then used
DecryptCached(state, counter, header, ciphertext, aad) ==
    LET mk == state.skipped_keys[counter]
        s1 == [state EXCEPT !.skipped_keys = Remove(@, counter)]
    IN  IF AeadOpens(mk, Nonce(mk, counter), ciphertext, Ad(aad, header))
        THEN Return(s1, ciphertext.pt, "cached")
        ELSE Raise(s1, "InvalidTag", "cached")

\* variant: no window test, and the keys stepped over are kept without eviction
DecryptAhead_unbounded(state, counter, header, ciphertext, aad) ==
    LET s1 == PrecomputeInsert(state, counter)
        mk == s1.skipped_keys[counter]
        s2 == [s1 EXCEPT !.skipped_keys = Remove(@, counter)]
    IN  IF AeadOpens(mk, Nonce(mk, counter), ciphertext, Ad(aad, header))
        THEN Return(s2, ciphertext.pt, "ahead")
        ELSE Raise(s2, "InvalidTag", "ahead")

\* a counter ahead of recv_counter
DecryptAhead(state, counter, header, ciphertext, aad) ==
    IF counter - state.recv_counter > OooWindow
    THEN Raise(state, "out-of-order too far", "ahead")
    ELSE LET s1 == _precompute_skipped_keys(state, counter)
         IN  IF counter \notin DOMAIN s1.skipped_keys
             THEN Raise(s1, "KeyError", "ahead")
             ELSE LET mk == s1.skipped_keys[counter]
                      s2 == [s1 EXCEPT !.skipped_keys = Remove(@, counter)]
                  IN  IF AeadOpens(mk, Nonce(mk, counter), ciphertext, Ad(aad, header))
                      THEN Return(_evict_skipped(s2), ciphertext.pt, "ahead")
                      ELSE Raise(s2, "InvalidTag", "ahead")

\* variant: the in-order path advances recv_counter but not the transcript
DecryptInOrder_no_transcript(state, prev_transcript, header, ciphertext, aad) ==
    IF prev_transcript # state.transcript
    THEN Raise(state, "transcript mismatch (tamper/reorder)", "inorder")
    ELSE LET step == ratchet_step(state.chain_key_recv, state.recv_counter)
             s1 == [state EXCEPT !.chain_key_recv = step.next_ck]
             nonce == Nonce(step.mk, state.recv_counter)
         IN  IF ~AeadOpens(step.mk, nonce, ciphertext, Ad(aad, header))
             THEN Raise(s1, "InvalidTag", "inorder")
             ELSE Return(_evict_skipped([s1 EXCEPT !.recv_counter = state.recv_counter + 1]),
                         ciphertext.pt, "inorder")

\* the in-order path
DecryptInOrder(state, prev_transcript, header, ciphertext, aad) ==
    IF prev_transcript # state.transcript
    THEN Raise(state, "transcript mismatch (tamper/reorder)", "inorder")
    ELSE LET step == ratchet_step(state.chain_key_recv, state.recv_counter)
             s1 == [state EXCEPT !.chain_key_recv = step.next_ck]
             nonce == Nonce(step.mk, state.recv_counter)
         IN  IF ~AeadOpens(step.mk, nonce, ciphertext, Ad(aad, header))
             THEN Raise(s1, "InvalidTag", "inorder")
             ELSE Return(_evict_skipped(
                             [s1 EXCEPT !.transcript =
                                            update_transcript(state.transcript, header, ciphertext),
                                        !.recv_counter = state.recv_counter + 1]),
                         ciphertext.pt, "inorder")

decrypt(state, header, ciphertext, aad) ==
    LET p == _parse_header_v3(header)
    IN  IF ~p.ok THEN Raise(state, p.err, "parse")
        ELSE IF p.suite # SUITE THEN Raise(state, "suite mismatch", "parse")
        ELSE LET s1 == DhMix(state, p.dh_pub)
             IN  IF IsOldReplay(s1, p.counter)
                 THEN Raise(s1, "replay/out-of-window", "old")
                 ELSE IF InSkipped(s1, p.counter)
                 THEN DecryptCached(s1, p.counter, header, ciphertext, aad)
                 ELSE IF p.counter > s1.recv_counter
                 THEN DecryptAhead(s1, p.counter, header, ciphertext, aad)
                 ELSE IF p.counter # s1.recv_counter
                 THEN Raise(s1, "unexpected counter", "old")
                 ELSE DecryptInOrder(s1, p.prev_transcript, header, ciphertext, aad)

----------------------------------------------------------------------------
(* container actions *)

\* the components a run does not exercise stay as constructed
AuxIdle == twin = << >> /\ bind = << >> /\ call = << >>

CipherIdle ==
    /\ snd = << >> /\ rcv = << >> /\ sent = << >> /\ last = << >>
    /\ ooo_done = {} /\ ncalls = 0

InitContainer ==
    /\ pcC = "idle"
    /\ blob = << >>
    /\ rd_chunks = << >>
    /\ verify_result = FALSE
    /\ built_from = << >>
    /\ CipherIdle
    /\ AuxIdle

Build ==
    /\ pcC = "idle"
    /\ \E core_blocks \in SeqsUpTo(BlockChoices, MaxBlocks), seek_entries \in SeekChoices,
          meta \in MetaChoices, safe \in SafeChoices :
          /\ blob' = build_h4mk(core_blocks, seek_entries, meta, safe)
          /\ built_from' = [core_blocks |-> core_blocks, seek_entries |-> seek_entries,
                            meta |-> meta, safe |-> safe]
    /\ pcC' = "built"
    /\ UNCHANGED <<rd_chunks, verify_result, cipherVars, auxVars>>

\* H4MKReader(data)
Read ==
    /\ pcC = "built"
    /\ LET r == _parse(blob)
       IN  /\ rd_chunks' = r.chunks
           /\ pcC' = IF r.ok THEN "parsed" ELSE "failed"
    /\ UNCHANGED <<blob, verify_result, built_from, cipherVars, auxVars>>

Verify ==
    /\ pcC = "parsed"
    /\ verify_result' = verify_integrity(blob, rd_chunks)
    /\ pcC' = "verified"
    /\ UNCHANGED <<blob, rd_chunks, built_from, cipherVars, auxVars>>

NextContainer == Build \/ Read \/ Verify

SpecContainer == InitContainer /\ [][NextContainer]_vars

----------------------------------------------------------------------------
(* multitrack containers: build_h4mk_tracks *)

MaxTrackBlocks == 2       \* blocks given to build_h4mk_tracks

TrackBlock(track_id, pts_us, kind, keyframe, payload) ==
    [track_id |-> track_id, pts_us |-> pts_us, kind |-> kind, keyframe |-> keyframe,
     payload |-> payload]

TrackIndexEntry(track_id, pts_us, kind, keyframe, core_index) ==
    [track_id |-> track_id, pts_us |-> pts_us, kind |-> kind, keyframe |-> keyframe,
     core_index |-> core_index]

\* a text field of the JSON documents: two length bytes, then the bytes
Field(bytes) == U16(Len(bytes)) \o bytes

RECURSIVE ParseDec(_)
\* int of a string of decimal digits
ParseDec(digits) ==
    IF digits = << >> THEN 0
    ELSE 10 * ParseDec(SubSeq(digits, 1, Len(digits) - 1)) + (digits[Len(digits)] - 48)

\* one object of the "trak" list of pack_trak
PackTrakEntry(e) ==
    Field(e.track_id) \o Field(Dec(e.pts_us)) \o Field(e.kind)
        \o (IF e.keyframe THEN <<116>> ELSE <<102>>) \o Field(Dec(e.core_index))

RECURSIVE PackTrakFrom(_)
PackTrakFrom(entries) ==
    IF entries = << >> THEN << >>
    ELSE PackTrakEntry(Head(entries)) \o PackTrakFrom(Tail(entries))

\* pack_trak: the JSON document {"trak": [...]} as bytes
pack_trak(entries) == <<123>> \o PackTrakFrom(entries) \o <<125>>

RECURSIVE UnpackTrakFrom(_, _)
\* the objects of the list, from 0-based position pos up to the closing brace
UnpackTrakFrom(data, pos) ==
    IF pos >= Len(data) - 1 THEN << >>
    ELSE LET n1 == ReadU16(Slice(data, pos, pos + 2))
             p1 == pos + 2 + n1
             n2 == ReadU16(Slice(data, p1, p1 + 2))
             p2 == p1 + 2 + n2
             n3 == ReadU16(Slice(data, p2, p2 + 2))
             p3 == p2 + 2 + n3
             n4 == ReadU16(Slice(data, p3 + 1, p3 + 3))
             p4 == p3 + 3 + n4
         IN  << TrackIndexEntry(Slice(data, pos + 2, p1), ParseDec(Slice(data, p1 + 2, p2)),
                                Slice(data, p2 + 2, p3), data[p3 + 1] = 116,
                                ParseDec(Slice(data, p3 + 3, p4))) >>
               \o UnpackTrakFrom(data, p4)

unpack_trak(data) == UnpackTrakFrom(data, 1)

\* base64.b64encode(...).decode("ascii"): text over a 16-letter alphabet stands
\* for the 64-letter one (two letters per byte, from "A")
b64encode(bytes) ==
    [k \in 1..(2 * Len(bytes)) |->
        IF k % 2 = 1 THEN 65 + (bytes[(k + 1) \div 2] \div 16) ELSE 65 + (bytes[k \div 2] % 16)]

b64decode(text) ==
    [k \in 1..(Len(text) \div 2) |-> 16 * (text[2 * k - 1] - 65) + (text[2 * k] - 65)]

\* variant: core_index counts from 1
TrakEntries_one_based(blocks) ==
    [i \in 1..Len(blocks) |->
        TrackIndexEntry(blocks[i].track_id, blocks[i].pts_us, blocks[i].kind,
                        blocks[i].keyframe, i)]

\* the loop of build_h4mk_tracks: enumerate(blocks) counts from 0
TrakEntries(blocks) ==
    [i \in 1..Len(blocks) |->
        TrackIndexEntry(blocks[i].track_id, blocks[i].pts_us, blocks[i].kind,
                        blocks[i].keyframe, i - 1)]

CorePayloads(blocks) == [i \in 1..Len(blocks) |-> blocks[i].payload]

RECURSIVE SortByPts(_)
\* list.sort(key = pts_us): stable, ascending
SortByPts(pairs) ==
    IF pairs = << >> THEN << >>
    ELSE LET rest == SortByPts(Tail(pairs))
             x == Head(pairs)
             before == SelectSeq(rest, LAMBDA y : y[1] < x[1])
             after == SelectSeq(rest, LAMBDA y : y[1] >= x[1])
         IN  before \o <<x>> \o after

\* build_seek_per_track: for every track with a keyframe, the (pts_us,
\* core_index) of its keyframes, sorted by pts_us
build_seek_per_track(entries) ==
    LET keyed == SelectSeq(entries, LAMBDA e : e.keyframe)
        tracks == { keyed[i].track_id : i \in 1..Len(keyed) }
        pairs(e) == <<e.pts_us, e.core_index>>
    IN  [t \in tracks |->
            SortByPts([i \in 1..Len(SelectSeq(keyed, LAMBDA e : e.track_id = t)) |->
                          pairs(SelectSeq(keyed, LAMBDA e : e.track_id = t)[i])])]

RECURSIVE SortedIds(_)
\* sorted(...) of a set of track ids (ids are compared by their first byte)
SortedIds(ids) ==
    IF ids = {} THEN << >>
    ELSE LET least == CHOOSE t \in ids : \A u \in ids : t[1] <= u[1]
         IN  <<least>> \o SortedIds(ids \ {least})

RECURSIVE PackSeekPairs(_)
PackSeekPairs(pairs) ==
    IF pairs = << >> THEN << >>
    ELSE u64(Head(pairs)[1]) \o U32(Head(pairs)[2]) \o PackSeekPairs(Tail(pairs))

RECURSIVE PackSeekTracks(_, _)
PackSeekTracks(seek, ids) ==
    IF ids = << >> THEN << >>
    ELSE U16(Len(Head(ids))) \o Head(ids) \o U32(Len(seek[Head(ids)]))
           \o PackSeekPairs(seek[Head(ids)]) \o PackSeekTracks(seek, Tail(ids))

pack_seek_multi(seek) == U32(Cardinality(DOMAIN seek)) \o PackSeekTracks(seek, SortedIds(DOMAIN seek))

\* a key of a JSON object with its text value: the key letter, then the value
Member(key, bytes) == <<key>> \o Field(bytes)

RECURSIVE MemberFrom(_, _, _)
\* json.loads(...)[key] of an object written with Member, read from 0-based pos
MemberFrom(data, key, pos) ==
    IF pos + 3 > Len(data) THEN << >>
    ELSE LET n == ReadU16(Slice(data, pos + 1, pos + 3))
         IN  IF data[pos + 1] = key THEN Slice(data, pos + 3, pos + 3 + n)
             ELSE MemberFrom(data, key, pos + 3 + n)

JsonGet(data, key) == MemberFrom(data, key, 1)

KeyDomain == 100          \* "domain"
KeyTracks == 107          \* "tracks"
KeySeekm == 115           \* "seekm_b64"
KeyTrak == 116            \* "trak_b64"

build_h4mk_tracks(blocks, meta, safe) ==
    LET core_blocks == CorePayloads(blocks)
        trak_entries == TrakEntries(blocks)
        seek == build_seek_per_track(trak_entries)
        seekm == pack_seek_multi(seek)
        trak == pack_trak(trak_entries)
        meta2 == meta \o Member(KeyDomain, <<118>>)
                      \o Member(KeyTracks, Concat(SortedIds({ blocks[i].track_id : i \in 1..Len(blocks) })))
                      \o Member(KeySeekm, b64encode(seekm))
                      \o Member(KeyTrak, b64encode(trak))
    IN  build_h4mk(core_blocks, << >>, meta2, safe)

TrackBlockChoices ==
    { TrackBlock(t, k[1], k[2], k[3], b) :
        t \in { <<97>>, <<118>> },
        k \in { <<0, <<73>>, TRUE>>, <<1000, <<80>>, FALSE>> },
        b \in { MakeBlock(0, 256, 1), MakeBlock(1, 128, 1) } }

TrackMetaChoices == { << >>, Member(112, <<7>>) }

BuildTracks ==
    /\ pcC = "idle"
    /\ \E blocks \in SeqsUpTo(TrackBlockChoices, MaxTrackBlocks), meta \in TrackMetaChoices :
          /\ blob' = build_h4mk_tracks(blocks, meta, << >>)
          /\ built_from' = [blocks |-> blocks, meta |-> meta, safe |-> << >>]
    /\ pcC' = "built"
    /\ UNCHANGED <<rd_chunks, verify_result, cipherVars, auxVars>>

NextTracks == BuildTracks \/ Read \/ Verify

SpecTracks == InitContainer /\ [][NextTracks]_vars

----------------------------------------------------------------------------
(* container: files altered between writer and reader *)

MaxTamperBlocks == 2      \* CORE blocks of a container that is altered

TagXTRA == <<88, 84, 82, 65>>

\* the chunks of a file, as (tag, payload), read the way H4MKReader reads them
ChunkList(data) ==
    LET chunks == _parse(data).chunks
    IN  [i \in 1..Len(chunks) |->
            Chunk(chunks[i].tag, Slice(data, chunks[i].offset, chunks[i].offset + chunks[i].size))]

\* a file in the H4MK frame: header, then the packed chunks
FileOf(cs) == MAGIC \o U16(VERSION) \o U16(0) \o PackAll(cs)

\* the container of build_h4mk with the VERI payload verify_integrity
\* recomputes: the digest of the CORE, SEEK, META and SAFE payloads
VerifyingContainer(core_blocks, seek_entries, meta, safe) ==
    LET prior == PreVeriChunks(core_blocks, seek_entries, meta, safe)
        unsigned == FileOf(prior)
        digest == sha256(VerifyHashInput(unsigned, _parse(unsigned).chunks))
    IN  FileOf(prior \o << Chunk(TagVERI, digest) >>)

TamperBlockLists ==
    { bs \in SeqsUpTo({ MakeBlock(0, 256, 1), MakeBlock(1, 128, 1) }, MaxTamperBlocks) :
        \A i \in 1..Len(bs) : \A j \in 1..Len(bs) : i # j => bs[i] # bs[j] }

TamperPayloads == { << >>, <<1>> }

\* the four alterations of the chunks before VERI; each chunk is packed again,
\* so its own CRC stays valid
PayloadChanged(pre) ==
    { [pre EXCEPT ![i] = Chunk(pre[i].tag, q)] : i \in 1..Len(pre), q \in TamperPayloads }

Reordered(pre) ==
    { [k \in 1..Len(pre) |-> IF k = i THEN pre[i + 1] ELSE IF k = i + 1 THEN pre[i] ELSE pre[k]] :
        i \in 1..(Len(pre) - 1) }

ChunkRemoved(pre) ==
    { SubSeq(pre, 1, i - 1) \o SubSeq(pre, i + 1, Len(pre)) : i \in 1..Len(pre) }

ChunkInserted(pre) ==
    { SubSeq(pre, 1, i) \o << Chunk(tag, q) >> \o SubSeq(pre, i + 1, Len(pre)) :
        i \in 0..Len(pre), tag \in {TagCORE, TagXTRA}, q \in TamperPayloads }

\* build_h4mk writes the file
BuildWritten ==
    /\ pcC = "idle"
    /\ \E core_blocks \in TamperBlockLists, meta \in MetaChoices :
          /\ blob' = build_h4mk(core_blocks, << >>, meta, << >>)
          /\ built_from' = [core_blocks |-> core_blocks, seek_entries |-> << >>,
                            meta |-> meta, safe |-> << >>]
    /\ pcC' = "built"
    /\ UNCHANGED <<rd_chunks, verify_result, cipherVars, auxVars>>

\* the file carries the VERI payload the reader accepts
BuildVerifying ==
    /\ pcC = "idle"
    /\ \E core_blocks \in TamperBlockLists, meta \in MetaChoices :
          /\ blob' = VerifyingContainer(core_blocks, << >>, meta, << >>)
          /\ built_from' = [core_blocks |-> core_blocks, seek_entries |-> << >>,
                            meta |-> meta, safe |-> << >>]
    /\ pcC' = "built"
    /\ UNCHANGED <<rd_chunks, verify_result, cipherVars, auxVars>>

\* the chunks before VERI are altered; VERI stays the last chunk
Tamper ==
    /\ pcC = "built"
    /\ LET cs == ChunkList(blob)
           pre == SubSeq(cs, 1, Len(cs) - 1)
           veri == cs[Len(cs)]
       IN  \E altered \in PayloadChanged(pre) \cup Reordered(pre) \cup ChunkRemoved(pre)
                              \cup ChunkInserted(pre) :
              /\ altered # pre
              /\ blob' = FileOf(altered \o <<veri>>)
    /\ pcC' = "altered"
    /\ UNCHANGED <<rd_chunks, verify_result, built_from, cipherVars, auxVars>>

\* H4MKReader(data) on the altered file
ReadAltered ==
    /\ pcC = "altered"
    /\ LET r == _parse(blob)
       IN  /\ rd_chunks' = r.chunks
           /\ pcC' = IF r.ok THEN "parsed_altered" ELSE "failed"
    /\ UNCHANGED <<blob, verify_result, built_from, cipherVars, auxVars>>

VerifyAltered ==
    /\ pcC = "parsed_altered"
    /\ verify_result' = verify_integrity(blob, rd_chunks)
    /\ pcC' = "verified_altered"
    /\ UNCHANGED <<blob, rd_chunks, built_from, cipherVars, auxVars>>

NextTamper == BuildWritten \/ BuildVerifying \/ Tamper \/ ReadAltered \/ VerifyAltered

SpecTamper == InitContainer /\ [][NextTamper]_vars

----------------------------------------------------------------------------
(* container: files cut short or with a damaged chunk *)

\* the lengths that end a file inside a chunk: after 1..11 bytes of a chunk
\* header, or after the header and before the end of the payload
CutPoints(data) ==
    LET chunks == _parse(data).chunks
    IN  UNION { ((chunks[k].offset - CHUNK_HEADER_SIZE + 1)..(chunks[k].offset - 1))
                  \cup (chunks[k].offset..(chunks[k].offset + chunks[k].size - 1)) :
                k \in 1..Len(chunks) }

\* the bytes of a chunk whose change makes the stored CRC and the payload
\* disagree: the four CRC bytes and the payload bytes (0-based positions)
CrcRelevant(data) ==
    LET chunks == _parse(data).chunks
    IN  UNION { ((chunks[k].offset - 4)..(chunks[k].offset + chunks[k].size - 1)) :
                k \in 1..Len(chunks) }

\* the file ends inside a chunk
Truncate ==
    /\ pcC = "built"
    /\ \E n \in CutPoints(blob) : blob' = SubSeq(blob, 1, n)
    /\ pcC' = "damaged"
    /\ UNCHANGED <<rd_chunks, verify_result, built_from, cipherVars, auxVars>>

\* one byte of a stored CRC or of a payload is changed
DamageChunk ==
    /\ pcC = "built"
    /\ \E at \in CrcRelevant(blob) : blob' = [blob EXCEPT ![at + 1] = (@ + 1) % 256]
    /\ pcC' = "damaged"
    /\ UNCHANGED <<rd_chunks, verify_result, built_from, cipherVars, auxVars>>

\* H4MKReader(data) on the damaged file
ReadDamaged ==
    /\ pcC = "damaged"
    /\ LET r == _parse(blob)
       IN  /\ rd_chunks' = r.chunks
           /\ pcC' = IF r.ok THEN "parsed_damaged" ELSE "failed"
    /\ UNCHANGED <<blob, verify_result, built_from, cipherVars, auxVars>>

NextDamage == BuildWritten \/ Truncate \/ DamageChunk \/ ReadDamaged

SpecDamage == InitContainer /\ [][NextDamage]_vars

----------------------------------------------------------------------------
(* living cipher: sender, receiver and the channel between them *)

MaxSendPaired == 4        \* encrypt calls in the paired (genuine traffic) runs
MaxCallsPaired == 4       \* decrypt calls in the paired runs

Plaintexts == { <<7>>, <<8>> }
OnePlaintext == { <<7>> }

\* key pairs: the sender starts with pair 1 and draws 3, 5, ... when it
\* ratchets; the receiver holds pair 2; injected headers carry the public key 99
NextKeyPair(state) == state.dh_priv + 2
InjectedPub == Some(99)

\* a ciphertext whose tag does not verify
Tampered(ct) == [ct EXCEPT !.tag_ok = FALSE]

JunkHeader == _build_header_v3(SUITE, 0, << >>, None)
JunkCt == Tampered(AeadSeal(ratchet_step(ChainKey(RootInit, "junk"), 0).mk,
                            Nonce(ratchet_step(ChainKey(RootInit, "junk"), 0).mk, 0),
                            << >>, Ad(NoAad, JunkHeader)))

\* a 32-byte value that is no transcript the receiver can hold
BogusTranscript(state) == Append(state.transcript, [h |-> JunkHeader, c |-> JunkCt])

\* init_peer_states of the tests: the receiver's receive chain is the sender's
\* send chain
PeerSender == init_from_shared_secret(1)
PeerReceiver == [init_from_shared_secret(2) EXCEPT !.chain_key_recv = PeerSender.chain_key_send]

NoCall == [op |-> "none", seq_ok |-> TRUE]

ContainerIdle ==
    /\ pcC = "off" /\ blob = << >> /\ rd_chunks = << >> /\ verify_result = FALSE
    /\ built_from = << >>

Init ==
    /\ snd = PeerSender
    /\ rcv = PeerReceiver
    /\ sent = << >>
    /\ last = NoCall
    /\ ooo_done = {}
    /\ ncalls = 0
    /\ ContainerIdle
    /\ AuxIdle

\* one encrypt call on the sender; the message goes on the channel
EncryptUpTo(max_send, plaintexts) ==
    /\ snd.send_counter < max_send
    /\ \E plaintext \in plaintexts :
          LET r == encrypt(snd, plaintext, NoAad, NextKeyPair(snd))
          IN  /\ snd' = r.st
              /\ sent' = Append(sent, [h |-> r.header, c |-> r.ct, pt |-> plaintext])
    /\ UNCHANGED <<rcv, last, ooo_done, ncalls, containerVars, auxVars>>

\* one decrypt call on the receiver with (header, ciphertext); msg is the
\* 1-based position in sent of the genuine message delivered, 0 for none
DecryptCall(header, ciphertext, msg) ==
    LET r == decrypt(rcv, header, ciphertext, NoAad)
    IN  /\ rcv' = r.st
        /\ last' = [ op |-> "decrypt", msg |-> msg, hdr |-> header, ct |-> ciphertext,
                     ok |-> r.ok, err |-> r.err, pt |-> r.pt, path |-> r.path,
                     pre |-> rcv,
                     replay |-> msg \in ooo_done,
                     seq_ok |-> last.seq_ok /\ msg = ncalls + 1 ]
        /\ ooo_done' = IF r.ok /\ r.path \in {"cached", "ahead"} /\ msg > 0
                       THEN ooo_done \cup {msg} ELSE ooo_done
        /\ ncalls' = ncalls + 1
        /\ UNCHANGED <<snd, sent, containerVars, auxVars>>

\* a message of the sender is delivered (any message, any number of times)
DeliverUpTo(max_calls) ==
    /\ ncalls < max_calls
    /\ \E i \in 1..Len(sent) : DecryptCall(sent[i].h, sent[i].c, i)

\* a genuine header arrives with a corrupted ciphertext
DeliverTampered ==
    /\ ncalls < MaxCalls
    /\ \E i \in 1..Len(sent) : DecryptCall(sent[i].h, Tampered(sent[i].c), 0)

\* a header made up by a third party arrives: any counter, a prev_transcript
\* that matches the receiver's or not, with or without a dh_pub
DeliverForged ==
    /\ ncalls < MaxCalls
    /\ \E counter \in 0..MaxCounter, dh_pub \in {None, InjectedPub}, match \in BOOLEAN :
          DecryptCall(_build_header_v3(SUITE, counter,
                                       IF match THEN rcv.transcript ELSE BogusTranscript(rcv),
                                       dh_pub),
                      JunkCt, 0)

\* a header of another suite arrives
DeliverWrongSuite ==
    /\ ncalls < MaxCalls
    /\ DecryptCall(_build_header_v3("H4-OTHER", rcv.recv_counter, rcv.transcript, None), JunkCt, 0)

Encrypt == EncryptUpTo(MaxSend, OnePlaintext)
Deliver == DeliverUpTo(MaxCalls)

Next == Encrypt \/ Deliver \/ DeliverTampered \/ DeliverForged \/ DeliverWrongSuite

\* sender and receiver with an active network attacker
Spec == Init /\ [][Next]_vars

EncryptPaired == EncryptUpTo(MaxSendPaired, Plaintexts)
DeliverPaired == DeliverUpTo(MaxCallsPaired)

NextPaired == EncryptPaired \/ DeliverPaired

\* sender and receiver with a channel that reorders and duplicates only
SpecPaired == Init /\ [][NextPaired]_vars

----------------------------------------------------------------------------
(* living cipher: a stream below the root-ratchet interval, every message
   delivered once, reordered within the window *)

StreamLen == 4            \* N, messages the sender encrypts
StreamRatchetEvery == 5   \* root_ratchet_every of both states, above N

InitStream ==
    /\ snd = [PeerSender EXCEPT !.root_ratchet_every = StreamRatchetEvery]
    /\ rcv = [PeerReceiver EXCEPT !.root_ratchet_every = StreamRatchetEvery]
    /\ sent = << >>
    /\ last = NoCall
    /\ ooo_done = {}
    /\ ncalls = 0
    /\ ContainerIdle
    /\ twin = << >>
    /\ bind = << >>
    /\ call = [op |-> "stream", delivered |-> {}, rejected |-> {}]

EncryptStream == EncryptUpTo(StreamLen, Plaintexts)

\* the message with counter i - 1 may be the next delivery: it was not
\* delivered before, its position ncalls is at most OooWindow away from its
\* counter, and no other undelivered message would be left more than
\* OooWindow behind
MayDeliverNext(i) ==
    /\ i \notin call.delivered
    /\ ncalls - (i - 1) <= OooWindow
    /\ (i - 1) - ncalls <= OooWindow
    /\ \A k \in (1..StreamLen) \ (call.delivered \cup {i}) : (k - 1) + OooWindow > ncalls

\* one decrypt call on the receiver with a message not delivered before
DeliverOnce ==
    /\ \E i \in 1..Len(sent) :
          /\ MayDeliverNext(i)
          /\ \E r \in {decrypt(rcv, sent[i].h, sent[i].c, NoAad)} :
                /\ rcv' = r.st
                /\ last' = [ op |-> "decrypt", msg |-> i, hdr |-> sent[i].h, ct |-> sent[i].c,
                             ok |-> r.ok, err |-> r.err, pt |-> r.pt, path |-> r.path,
                             pre |-> rcv, replay |-> FALSE,
                             seq_ok |-> last.seq_ok /\ i = ncalls + 1 ]
                /\ ooo_done' = IF r.ok /\ r.path \in {"cached", "ahead"}
                               THEN ooo_done \cup {i} ELSE ooo_done
                /\ call' = [call EXCEPT !.delivered = @ \cup {i},
                                        !.rejected = IF r.ok /\ r.pt = sent[i].pt
                                                     THEN @ ELSE @ \cup {i}]
    /\ ncalls' = ncalls + 1
    /\ UNCHANGED <<snd, sent, containerVars, twin, bind>>

NextStream == EncryptStream \/ DeliverOnce

\* the sender goes on encrypting and the channel goes on delivering
SpecStream == InitStream /\ [][NextStream]_vars /\ WF_vars(EncryptStream) /\ WF_vars(DeliverOnce)

----------------------------------------------------------------------------
(* living cipher: two senders initialised from the same secret and context *)

MaxSendTwin == 4          \* encrypt calls made on each of the two states

InitTwin ==
    /\ snd = PeerSender
    /\ rcv = PeerReceiver
    /\ sent = << >>
    /\ last = NoCall
    /\ ooo_done = {}
    /\ ncalls = 0
    /\ ContainerIdle
    /\ twin = [st |-> init_from_shared_secret(4), out |-> << >>]   \* a key pair of its own
    /\ bind = << >>
    /\ call = << >>

\* both states encrypt the same (plaintext, aad); when the root ratchet fires,
\* X25519PrivateKey.generate() gives the second state the same key pair
\* (stubbed) or another one
EncryptTwin ==
    /\ snd.send_counter < MaxSendTwin
    /\ \E plaintext \in Plaintexts, aad \in { NoAad, <<1>> }, fresh2 \in {NextKeyPair(snd), NextKeyPair(snd) + 1} :
          LET ratchet == _should_root_ratchet(snd.send_counter, snd.root_ratchet_every)
              r1 == encrypt(snd, plaintext, aad, NextKeyPair(snd))
              r2 == encrypt(twin.st, plaintext, aad, IF ratchet THEN fresh2 ELSE NextKeyPair(snd))
              same_before == twin.out = << >> \/ twin.out[Len(twin.out)].same
          IN  /\ snd' = r1.st
              /\ sent' = Append(sent, [h |-> r1.header, c |-> r1.ct, pt |-> plaintext])
              /\ twin' = [st |-> r2.st,
                          out |-> Append(twin.out,
                                         [h |-> r2.header, c |-> r2.ct,
                                          same |-> same_before /\ (~ratchet \/ fresh2 = NextKeyPair(snd))])]
    /\ UNCHANGED <<rcv, last, ooo_done, ncalls, containerVars, bind, call>>

NextTwin == EncryptTwin

SpecTwin == InitTwin /\ [][NextTwin]_vars

----------------------------------------------------------------------------
(* living cipher: headers with other flag bits or trailing bytes *)

MaxSendFlagged == 2       \* messages the peer seals
MaxCallsFlagged == 2      \* decrypt calls made on the receiver

\* a peer holding the sender's state seals a message as encrypt does (chain
\* step, nonce, header as associated data, transcript, counter), under a v3
\* header whose flags byte is flags and that ends with the bytes trailing
encrypt_flagged(state, plaintext, aad, flags, trailing) ==
    LET step == ratchet_step(state.chain_key_send, state.send_counter)
        nonce == Nonce(step.mk, state.send_counter)
        framed == _build_header_v3(SUITE, state.send_counter, state.transcript,
                                   IF flags % 2 = 1 THEN _pub_bytes(state.dh_priv) ELSE None)
        header == [framed EXCEPT !.flags = flags, !.extra = @ \o trailing]
        ct == AeadSeal(step.mk, nonce, plaintext, Ad(aad, header))
    IN  [ st |-> [state EXCEPT !.chain_key_send = step.next_ck,
                               !.transcript = update_transcript(state.transcript, header, ct),
                               !.send_counter = state.send_counter + 1],
          header |-> header,
          ct |-> ct ]

EncryptFlagged ==
    /\ snd.send_counter < MaxSendFlagged
    /\ \E flags \in 0..3, trailing \in { << >>, <<5>> }, plaintext \in OnePlaintext :
          LET r == encrypt_flagged(snd, plaintext, NoAad, flags, trailing)
          IN  /\ snd' = r.st
              /\ sent' = Append(sent, [h |-> r.header, c |-> r.ct, pt |-> plaintext])
    /\ UNCHANGED <<rcv, last, ooo_done, ncalls, containerVars, auxVars>>

DeliverFlagged == DeliverUpTo(MaxCallsFlagged)

NextFlagged == EncryptFlagged \/ DeliverFlagged

SpecFlagged == Init /\ [][NextFlagged]_vars

----------------------------------------------------------------------------
(* living bindings: CORE blocks bound to a CoreContext *)

Bar == <<124>>            \* "|"

\* CoreContext.aad: f"H4MK|{engine_id}|{engine_fp}|{container_veri_hex}|{track_id}|{pts_us}|{chunk_index}"
CoreContext_aad(ctx) ==
    <<72, 52, 77, 75>> \o Bar \o ctx.engine_id \o Bar \o ctx.engine_fp \o Bar
        \o ctx.container_veri_hex \o Bar \o ctx.track_id \o Bar
        \o Dec(ctx.pts_us) \o Bar \o Dec(ctx.chunk_index)

CoreContext(engine_id, engine_fp, container_veri_hex, track_id, pts_us, chunk_index) ==
    [ engine_id |-> engine_id, engine_fp |-> engine_fp,
      container_veri_hex |-> container_veri_hex, track_id |-> track_id,
      pts_us |-> pts_us, chunk_index |-> chunk_index ]

\* the values the fields are drawn from: "g", "g|r"; "r|f", "f"; a hex digest;
\* "v"; time stamps; chunk indices
Contexts ==
    { CoreContext(e, f, v, t, p, i) :
        e \in { <<103>>, <<103, 124, 114>> }, f \in { <<102>>, <<114, 124, 102>> },
        v \in { <<100, 101>> }, t \in { <<118>> },
        p \in { 0, 1, 1000 }, i \in { 0, 1, 10 } }

encrypt_core_block(state, payload, ctx, fresh) == encrypt(state, payload, CoreContext_aad(ctx), fresh)

decrypt_core_block(state, header, ciphertext, ctx) ==
    decrypt(state, header, ciphertext, CoreContext_aad(ctx))

InitBind ==
    /\ snd = PeerSender
    /\ rcv = PeerReceiver
    /\ sent = << >>
    /\ last = NoCall
    /\ ooo_done = {}
    /\ ncalls = 0
    /\ ContainerIdle
    /\ twin = << >>
    /\ call = << >>
    /\ \E ctx1 \in Contexts, ctx2 \in Contexts : bind = [enc |-> ctx1, dec |-> ctx2]

\* the block is encrypted under bind.enc
EncryptCoreBlock ==
    /\ sent = << >>
    /\ \E payload \in OnePlaintext :
          LET r == encrypt_core_block(snd, payload, bind.enc, NextKeyPair(snd))
          IN  /\ snd' = r.st
              /\ sent' = Append(sent, [h |-> r.header, c |-> r.ct, pt |-> payload])
    /\ UNCHANGED <<rcv, last, ooo_done, ncalls, containerVars, auxVars>>

\* the block is decrypted under bind.dec
DecryptCoreBlock ==
    /\ sent # << >>
    /\ ncalls = 0
    /\ LET r == decrypt_core_block(rcv, sent[1].h, sent[1].c, bind.dec)
       IN  /\ rcv' = r.st
           /\ last' = [ op |-> "decrypt_core_block", msg |-> 1, hdr |-> sent[1].h,
                        ct |-> sent[1].c, ok |-> r.ok, err |-> r.err, pt |-> r.pt,
                        path |-> r.path, pre |-> rcv, replay |-> FALSE, seq_ok |-> TRUE ]
    /\ ncalls' = ncalls + 1
    /\ UNCHANGED <<snd, sent, ooo_done, containerVars, auxVars>>

NextBind == EncryptCoreBlock \/ DecryptCoreBlock

SpecBind == InitBind /\ [][NextBind]_vars

----------------------------------------------------------------------------
(* index, GOP and decode-chain functions, called on their own *)

MaxTrakEntries == 3       \* entries of a TRAK list given to build_seek_per_track

\* every component but the function called stays as constructed
OthersIdle == ContainerIdle /\ CipherIdle /\ twin = << >> /\ bind = << >>

InitIndex == OthersIdle /\ call = << >>

\* TRAK lists of tracks "a" and "v"; core_index is the position in the list
TrakLists ==
    { [i \in 1..Len(c) |-> TrackIndexEntry(c[i][1], c[i][2], IF c[i][3] THEN <<73>> ELSE <<80>>,
                                           c[i][3], i - 1)] :
        c \in SeqsUpTo({ <<97>>, <<118>> } \X { 0, 1000 } \X BOOLEAN, MaxTrakEntries) }

BuildSeekPerTrack ==
    /\ call = << >>
    /\ \E entries \in TrakLists :
          call' = [ op |-> "build_seek_per_track", entries |-> entries,
                    seek |-> build_seek_per_track(entries) ]
    /\ UNCHANGED <<containerVars, cipherVars, twin, bind>>


----------------------------------------------------------------------------
(* multitrack containers whose blocks are laid out by a GOP configuration *)

MaxGopSize == 3           \* largest gop_size of a GOPConfig
MaxGopBlocks == 4         \* block indices per track, 0 .. MaxGopBlocks - 1

GOPConfig(gop_size, allow_b) == [gop_size |-> gop_size, allow_b |-> allow_b]

is_keyframe(index, cfg) == (index % cfg.gop_size) = 0

\* variant: the B-frame test comes first
kind_for_b_first(index, cfg) ==
    IF cfg.allow_b /\ (index % 2) = 1 THEN <<66>>
    ELSE IF is_keyframe(index, cfg) THEN <<73>>
    ELSE <<80>>

\* "I" | "B" | "P"
kind_for(index, cfg) ==
    IF is_keyframe(index, cfg) THEN <<73>>
    ELSE IF cfg.allow_b /\ (index % 2) = 1 THEN <<66>>
    ELSE <<80>>

\* the blocks of n time points on the given tracks, interleaved in time
GopBlocks(n, tracks, cfg) ==
    [k \in 1..(n * Len(tracks)) |->
        LET i == (k - 1) \div Len(tracks)
            t == tracks[((k - 1) % Len(tracks)) + 1]
        IN  TrackBlock(t, i * 1000, kind_for(i, cfg), is_keyframe(i, cfg),
                       MakeBlock(i, 128, t[1]))]

BuildGopTracks ==
    /\ pcC = "idle"
    /\ \E n \in 0..MaxGopBlocks, tracks \in { << <<118>> >>, << <<118>>, <<99>> >> },
          gop_size \in 1..MaxGopSize, allow_b \in BOOLEAN, meta \in TrackMetaChoices :
          LET blocks == GopBlocks(n, tracks, GOPConfig(gop_size, allow_b))
          IN  /\ blob' = build_h4mk_tracks(blocks, meta, << >>)
              /\ built_from' = [blocks |-> blocks, meta |-> meta, safe |-> << >>]
    /\ pcC' = "built"
    /\ UNCHANGED <<rd_chunks, verify_result, cipherVars, auxVars>>

NextGop == BuildGopTracks \/ Read \/ Verify

SpecGop == InitContainer /\ [][NextGop]_vars

----------------------------------------------------------------------------
(* harmony4_media.mux: chunk container with GOP flags and per-track seek tables *)

\* struct.pack("<I", n), struct.pack("<H", n) and their inverses
U32LE(n) == << n % 256, (n \div Pow2(8)) % 256, (n \div Pow2(16)) % 256, (n \div Pow2(24)) % 256 >>
U16LE(n) == << n % 256, (n \div Pow2(8)) % 256 >>
ReadU32LE(b) == b[1] + b[2] * Pow2(8) + b[3] * Pow2(16) + b[4] * Pow2(24)
ReadU16LE(b) == b[1] + b[2] * Pow2(8)

TYPE_SHIFT == 28
BLK_I == 0
BLK_P == 1
BLK_B == 2

\* gop_flags.make_flags, for 0 <= pts_ms <= PTS_MASK and a block type of I, P, B
make_flags(pts_ms, blk_type) == (pts_ms % Pow2(TYPE_SHIFT)) + (blk_type % 4) * Pow2(TYPE_SHIFT)

\* gop_flags.parse_flags: (pts_ms, blk_type)
parse_flags(flags) == << flags % Pow2(TYPE_SHIFT), (flags \div Pow2(TYPE_SHIFT)) % 4 >>

T_TRK == <<84, 82, 65, 75>>
T_TSEK == <<84, 83, 69, 75>>

MuxChunk(ctype, flags, payload) == [ctype |-> ctype, flags |-> flags, payload |-> payload]

_encode_chunk(chunk) ==
    LET header == chunk.ctype \o U32LE(chunk.flags) \o U32LE(Len(chunk.payload))
    IN  Once(header \o chunk.payload, LAMBDA framed : framed \o U32LE(_crc32(framed)))

\* magic, version 1, flags 0, reserved, timestamp 0
_h4mk_header == MAGIC \o <<1, 0>> \o U16LE(0) \o U32LE(0) \o U32LE(0)

mux(chunks) ==
    LET body == Concat([i \in 1..Len(chunks) |-> _encode_chunk(chunks[i])])
    IN  Once(_h4mk_header \o body, LAMBDA unsigned : unsigned \o U32LE(_crc32(unsigned)))

RECURSIVE MuxParseFrom(_, _, _)
\* the while loop of parse, from 0-based position pos: the ChunkInfo list, or
\* a ValueError
MuxParseFrom(container, pos, validate_crc) ==
    IF ~(pos < Len(container) - 4) \/ pos + 12 > Len(container) THEN [ok |-> TRUE, chunks |-> << >>]
    ELSE LET payload_len == ReadU32LE(Slice(container, pos + 8, pos + 12))
             payload_start == pos + 12
             payload_end == payload_start + payload_len
             stored_crc == ReadU32LE(Slice(container, payload_end, payload_end + 4))
         IN  IF payload_end > Len(container) - 4 THEN [ok |-> FALSE, chunks |-> << >>]
             ELSE IF validate_crc /\ _crc32(Slice(container, pos, payload_end)) # stored_crc
                  THEN [ok |-> FALSE, chunks |-> << >>]
             ELSE Once(MuxParseFrom(container, payload_end + 4, validate_crc),
                       LAMBDA rest :
                          IF ~rest.ok THEN rest
                          ELSE [ok |-> TRUE,
                                chunks |-> << [ctype |-> Slice(container, pos, pos + 4),
                                               flags |-> ReadU32LE(Slice(container, pos + 4, pos + 8)),
                                               index |-> payload_start,
                                               payload_len |-> payload_len,
                                               crc32 |-> stored_crc] >> \o rest.chunks])

\* h4mk.parse: the ChunkInfo list; index is the byte offset of the payload
parse(container, validate_crc) ==
    IF Len(container) < 16 \/ Slice(container, 0, 4) # MAGIC THEN [ok |-> FALSE, chunks |-> << >>]
    ELSE Once(MuxParseFrom(container, 16, validate_crc),
              LAMBDA r :
                 IF ~r.ok THEN r
                 ELSE IF validate_crc
                         /\ _crc32(Slice(container, 0, Len(container) - 4))
                              # ReadU32LE(Slice(container, Len(container) - 4, Len(container)))
                      THEN [ok |-> FALSE, chunks |-> << >>]
                 ELSE r)

\* h4mk.extract: the payload of the chunk whose payload starts at index
extract(container, index) ==
    LET infos == parse(container, FALSE).chunks
        hit == SelectSeq(infos, LAMBDA info : info.index = index)
    IN  Slice(container, index, index + hit[1].payload_len)

RECURSIVE PackSeekTableFrom(_)
PackSeekTableFrom(entries) ==
    IF entries = << >> THEN << >>
    ELSE U32LE(Head(entries)[1]) \o U32LE(Head(entries)[2]) \o PackSeekTableFrom(Tail(entries))

\* "H4SK", count, reserved, then (pts_ms, chunk_index) pairs
build_seek_table(entries) ==
    <<72, 52, 83, 75>> \o U16LE(Len(entries)) \o U16LE(0) \o PackSeekTableFrom(entries)

parse_seek_table(data) ==
    [i \in 1..ReadU16LE(Slice(data, 4, 6)) |->
        << ReadU32LE(Slice(data, 8 * i, 8 * i + 4)), ReadU32LE(Slice(data, 8 * i + 4, 8 * i + 8)) >>]

\* "H4TB", track_id, reserved, then the opaque payload
wrap_core_payload(track_id, opaque_blob) == <<72, 52, 84, 66>> \o U16LE(track_id) \o U16LE(0) \o opaque_blob

\* (track_id, opaque_blob)
unwrap_core_payload(payload) == << ReadU16LE(Slice(payload, 4, 6)), Slice(payload, 8, Len(payload)) >>

Block(pts_ms, blk_type, opaque_blob) == [pts_ms |-> pts_ms, blk_type |-> blk_type, opaque_blob |-> opaque_blob]

RECURSIVE SortCoreChunks(_)
\* list.sort(key = (pts_ms, track_id)): stable, ascending
SortCoreChunks(list) ==
    IF list = << >> THEN << >>
    ELSE LET rest == SortCoreChunks(Tail(list))
             x == Head(list)
             Less(y, z) == y[1] < z[1] \/ (y[1] = z[1] /\ y[2] < z[2])
         IN  SelectSeq(rest, LAMBDA y : Less(y, x)) \o <<x>> \o SelectSeq(rest, LAMBDA y : ~Less(y, x))

\* the chunks of mux_multitrack_gop before the seek tables: TRAK, the sidecar
\* given, then CORE sorted by (pts_ms, track_id).  tracks is the list of
\* track ids; blocks_by_track lists (track_id, blocks) in the dict's order
GopChunks(tracks, blocks_by_track, meta_json) ==
    LET core_chunks ==
            Concat([k \in 1..Len(blocks_by_track) |->
                [j \in 1..Len(blocks_by_track[k][2]) |->
                    LET tid == blocks_by_track[k][1]
                        b == blocks_by_track[k][2][j]
                    IN  << b.pts_ms, tid,
                           MuxChunk(TagCORE, make_flags(b.pts_ms, b.blk_type),
                                    wrap_core_payload(tid, b.opaque_blob)) >>]])
        sorted == SortCoreChunks(core_chunks)
    IN  << MuxChunk(T_TRK, 0, <<123>> \o tracks \o <<125>>) >>
          \o (IF meta_json = None THEN << >> ELSE << MuxChunk(TagMETA, 0, meta_json[1]) >>)
          \o [i \in 1..Len(sorted) |-> sorted[i][3]]

\* variant: the P-blocks of a track are listed as well
SeekMap_with_P(tracks, tmp) ==
    LET OfTrack(infos, tid) ==
            SelectSeq(infos, LAMBDA ci : /\ ci.ctype = TagCORE
                                         /\ parse_flags(ci.flags)[2] # BLK_B
                                         /\ unwrap_core_payload(extract(tmp, ci.index))[1] = tid)
        Entries(hits) == [i \in 1..Len(hits) |-> << parse_flags(hits[i].flags)[1], hits[i].index >>]
    IN  Once(parse(tmp, TRUE).chunks,
             LAMBDA infos :
                [k \in 1..Len(tracks) |->
                    << tracks[k], Once(OfTrack(infos, tracks[k]), LAMBDA hits : Entries(hits) \o << >>) >>]
                \o << >>)

\* seek_map: for every track of tracks, the (pts, index) of its I-blocks in
\* the order of the first mux pass
SeekMap(tracks, tmp) ==
    LET OfTrack(infos, tid) ==
            SelectSeq(infos, LAMBDA ci : /\ ci.ctype = TagCORE
                                         /\ parse_flags(ci.flags)[2] = BLK_I
                                         /\ unwrap_core_payload(extract(tmp, ci.index))[1] = tid)
        Entries(hits) == [i \in 1..Len(hits) |-> << parse_flags(hits[i].flags)[1], hits[i].index >>]
    IN  Once(parse(tmp, TRUE).chunks,
             LAMBDA infos :
                [k \in 1..Len(tracks) |->
                    << tracks[k], Once(OfTrack(infos, tracks[k]), LAMBDA hits : Entries(hits) \o << >>) >>]
                \o << >>)

\* mux_multitrack_gop: ValueError on a duplicate track id or on blocks of an
\* unknown track; otherwise the container with one TSEK chunk per track
mux_multitrack_gop(tracks, blocks_by_track, meta_json) ==
    IF \/ Cardinality({ tracks[k] : k \in 1..Len(tracks) }) # Len(tracks)
       \/ \E k \in 1..Len(blocks_by_track) :
             blocks_by_track[k][1] \notin { tracks[i] : i \in 1..Len(tracks) }
    THEN [ok |-> FALSE, data |-> << >>]
    ELSE LET Tsek(seek_map) ==
                 [k \in 1..Len(seek_map) |->
                     MuxChunk(T_TSEK, 0, <<72, 52, 84, 83>> \o U16LE(seek_map[k][1]) \o U16LE(0)
                                           \o build_seek_table(seek_map[k][2]))]
             Second(chunks, seek_map) ==
                 Once(chunks \o Tsek(seek_map), LAMBDA all : [ok |-> TRUE, data |-> mux(all)])
             First(chunks) ==
                 Once(mux(chunks), LAMBDA tmp :
                     Once(SeekMap(tracks, tmp), LAMBDA seek_map : Second(chunks, seek_map)))
         IN  Once(GopChunks(tracks, blocks_by_track, meta_json) \o << >>, LAMBDA chunks : First(chunks))

\* _read_track_seek_tables: track_id -> entries, a later TSEK chunk of a track
\* replacing an earlier one
_read_track_seek_tables(container) ==
    LET Tables(payload) ==
            LET good == { i \in 1..Len(payload) : Slice(payload[i], 0, 4) = <<72, 52, 84, 83>> }
                tid(i) == ReadU16LE(Slice(payload[i], 4, 6))
            IN  [t \in { tid(i) : i \in good } |->
                    LET i == CHOOSE i \in good : tid(i) = t /\ \A j \in good : tid(j) = t => j <= i
                    IN  parse_seek_table(Slice(payload[i], 8, Len(payload[i])))]
    IN  Once(SelectSeq(parse(container, TRUE).chunks, LAMBDA ci : ci.ctype = T_TSEK),
             LAMBDA tsek :
                Once([i \in 1..Len(tsek) |-> extract(container, tsek[i].index)] \o << >>,
                     LAMBDA payload : Tables(payload)))

RECURSIVE FindKeyframeLoop(_, _, _, _, _)
\* the binary search of find_keyframe_for_time over 0-based lo..hi
FindKeyframeLoop(entries, t_ms, lo, hi, best) ==
    IF lo > hi THEN best
    ELSE LET mid == (lo + hi) \div 2
         IN  IF entries[mid + 1][1] <= t_ms
             THEN FindKeyframeLoop(entries, t_ms, mid + 1, hi, Some(entries[mid + 1][2]))
             ELSE FindKeyframeLoop(entries, t_ms, lo, mid - 1, best)

RECURSIVE FindKeyframeScan(_, _, _, _, _, _)
\* the fallback of find_keyframe_for_time: the last I-block of the track at or
\* before t_ms among the chunks from position j on
FindKeyframeScan(container, infos, j, track_id, t_ms, best) ==
    IF j > Len(infos) THEN best
    ELSE LET ci == infos[j]
             hit == /\ ci.ctype = TagCORE
                    /\ unwrap_core_payload(extract(container, ci.index))[1] = track_id
                    /\ parse_flags(ci.flags)[2] = BLK_I
                    /\ parse_flags(ci.flags)[1] <= t_ms
         IN  FindKeyframeScan(container, infos, j + 1, track_id, t_ms,
                              IF hit THEN Some(ci.index) ELSE best)

\* find_keyframe_for_time: Some(chunk index) or None
find_keyframe_for_time(container, track_id, t_ms) ==
    LET Get(seeks) == IF track_id \in DOMAIN seeks THEN seeks[track_id] \o << >> ELSE << >>
    IN  Once(Get(_read_track_seek_tables(container)),
             LAMBDA entries :
                IF entries # << >> THEN FindKeyframeLoop(entries, t_ms, 0, Len(entries) - 1, None)
                ELSE Once(parse(container, TRUE).chunks,
                          LAMBDA infos : FindKeyframeScan(container, infos, 1, track_id, t_ms, None)))

RECURSIVE ChainFrom_no_time_bound(_, _, _, _, _)
\* variant: the loop stops at the next I-block only
ChainFrom_no_time_bound(container, infos, j, track_id, t_ms) ==
    IF j > Len(infos) THEN << >>
    ELSE LET ci == infos[j]
         IN  IF ci.ctype # TagCORE THEN ChainFrom_no_time_bound(container, infos, j + 1, track_id, t_ms)
             ELSE IF unwrap_core_payload(extract(container, ci.index))[1] # track_id
                  THEN ChainFrom_no_time_bound(container, infos, j + 1, track_id, t_ms)
             ELSE IF parse_flags(ci.flags)[2] = BLK_I THEN << >>
             ELSE <<ci.index>> \o ChainFrom_no_time_bound(container, infos, j + 1, track_id, t_ms)

RECURSIVE ChainFrom_skips_B(_, _, _, _, _)
\* variant: B-blocks are passed over
ChainFrom_skips_B(container, infos, j, track_id, t_ms) ==
    IF j > Len(infos) THEN << >>
    ELSE LET ci == infos[j]
         IN  IF ci.ctype # TagCORE THEN ChainFrom_skips_B(container, infos, j + 1, track_id, t_ms)
             ELSE IF unwrap_core_payload(extract(container, ci.index))[1] # track_id
                  THEN ChainFrom_skips_B(container, infos, j + 1, track_id, t_ms)
             ELSE IF parse_flags(ci.flags)[2] = BLK_I THEN << >>
             ELSE IF parse_flags(ci.flags)[1] > t_ms THEN << >>
             ELSE IF parse_flags(ci.flags)[2] = BLK_B
                  THEN ChainFrom_skips_B(container, infos, j + 1, track_id, t_ms)
             ELSE <<ci.index>> \o ChainFrom_skips_B(container, infos, j + 1, track_id, t_ms)

RECURSIVE ChainFrom(_, _, _, _, _)
\* the loop of get_decode_chain over infos[j..]: the blocks of the track up to
\* t_ms, stopping at the next I-block
ChainFrom(container, infos, j, track_id, t_ms) ==
    IF j > Len(infos) THEN << >>
    ELSE LET ci == infos[j]
         IN  IF ci.ctype # TagCORE THEN ChainFrom(container, infos, j + 1, track_id, t_ms)
             ELSE IF unwrap_core_payload(extract(container, ci.index))[1] # track_id
                  THEN ChainFrom(container, infos, j + 1, track_id, t_ms)
             ELSE IF parse_flags(ci.flags)[2] = BLK_I THEN << >>
             ELSE IF parse_flags(ci.flags)[1] > t_ms THEN << >>
             ELSE <<ci.index>> \o ChainFrom(container, infos, j + 1, track_id, t_ms)

\* get_decode_chain: the chunk indices to decode, in order
get_decode_chain(container, track_id, t_ms) ==
    LET Chain(infos, i_idx) ==
            LET start == { j \in 1..Len(infos) : infos[j].index = i_idx[1] }
            IN  IF i_idx = None THEN << >>
                ELSE IF start = {} THEN <<i_idx[1]>>
                ELSE <<i_idx[1]>>
                       \o ChainFrom(container, infos, (CHOOSE j \in start : TRUE) + 1, track_id, t_ms)
    IN  Once(parse(container, TRUE).chunks,
             LAMBDA infos :
                Once(find_keyframe_for_time(container, track_id, t_ms),
                     LAMBDA i_idx : Chain(infos, i_idx)))

\* pretty_list_core: chunk_index, track_id, pts_ms and block type of every
\* CORE chunk, in file order
pretty_list_core(container) ==
    Once(SelectSeq(parse(container, TRUE).chunks, LAMBDA ci : ci.ctype = TagCORE),
         LAMBDA infos :
            [i \in 1..Len(infos) |->
                [ chunk_index |-> infos[i].index,
                  track_id |-> unwrap_core_payload(extract(container, infos[i].index))[1],
                  pts_ms |-> parse_flags(infos[i].flags)[1],
                  blk |-> parse_flags(infos[i].flags)[2] ]])

----------------------------------------------------------------------------
(* keyframe lookup: the binary searches over a seek table *)

MaxTable == 3             \* entries of a seek table
MaxChainBlocks == 2       \* blocks of the first GOP of the track a decode chain is asked for

RECURSIVE SeekToPtsLoop_leftward(_, _, _, _, _)
\* variant: after a hit the search goes on to the left
SeekToPtsLoop_leftward(table, target_pts, left, right, result) ==
    IF left > right THEN result
    ELSE LET mid == (left + right) \div 2
         IN  IF table[mid + 1][1] <= target_pts
             THEN SeekToPtsLoop_leftward(table, target_pts, left, mid - 1, Some(table[mid + 1]))
             ELSE SeekToPtsLoop_leftward(table, target_pts, left, mid - 1, result)

RECURSIVE SeekToPtsLoop(_, _, _, _, _)
\* the while loop of H4MKReader.seek_to_pts over 0-based left..right; a
\* SeekEntry is the pair (pts, offset)
SeekToPtsLoop(table, target_pts, left, right, result) ==
    IF left > right THEN result
    ELSE LET mid == (left + right) \div 2
         IN  IF table[mid + 1][1] <= target_pts
             THEN SeekToPtsLoop(table, target_pts, mid + 1, right, Some(table[mid + 1]))
             ELSE SeekToPtsLoop(table, target_pts, left, mid - 1, result)

\* H4MKReader.seek_to_pts over the table get_seek_table returns
seek_to_pts(table, target_pts) ==
    IF table = << >> THEN None
    ELSE SeekToPtsLoop(table, target_pts, 0, Len(table) - 1, None)

\* variant: finalize locks the table without sorting
SeekTable_finalize_unsorted(entries) == entries

\* SeekTable.finalize: entries.sort(key = pts)
SeekTable_finalize(entries) == SortByPts(entries)

RECURSIVE SeekTableLoop(_, _, _, _, _)
\* the while loop of SeekTable.seek: best_idx, or -1
SeekTableLoop(entries, pts, lo, hi, best_idx) ==
    IF lo > hi THEN best_idx
    ELSE LET mid == (lo + hi) \div 2
         IN  IF entries[mid + 1][1] <= pts
             THEN SeekTableLoop(entries, pts, mid + 1, hi, mid)
             ELSE SeekTableLoop(entries, pts, lo, mid - 1, best_idx)

\* SeekTable.seek on a finalized table
SeekTable_seek(entries, pts) ==
    IF entries = << >> THEN None
    ELSE LET best_idx == SeekTableLoop(entries, pts, 0, Len(entries) - 1, -1)
         IN  IF best_idx >= 0 THEN Some(entries[best_idx + 1]) ELSE None

\* seek entries in any order; the offset tells the entries of a table apart
SeekLists ==
    { [i \in 1..Len(p) |-> <<p[i], 40 * i>>] : p \in SeqsUpTo({1000, 2000, 3000}, MaxTable) }

Targets == { 0, 999, 1000, 2500, 3000, 4000 }

SeekToPts ==
    /\ call = << >>
    /\ \E table \in { s \in SeekLists : \A i \in 1..(Len(s) - 1) : s[i][1] <= s[i + 1][1] },
          t \in Targets :
          call' = [op |-> "seek_to_pts", table |-> table, t |-> t, result |-> seek_to_pts(table, t)]
    /\ UNCHANGED <<containerVars, cipherVars, twin, bind>>

SeekTableSeek ==
    /\ call = << >>
    /\ \E added \in SeekLists, t \in Targets :
          LET table == SeekTable_finalize(added)
          IN  call' = [op |-> "SeekTable.seek", table |-> table, t |-> t,
                       result |-> SeekTable_seek(table, t)]
    /\ UNCHANGED <<containerVars, cipherVars, twin, bind>>

\* what mux_multitrack_gop is given: for track 1, I, P and B blocks at 0 and
\* 100 ms in any order, alone, followed by a second GOP at 200 ms, beside a
\* second track, or with blocks of a track that is not declared
GopInputs ==
    { [tracks |-> o[1],
       blocks_by_track |-> IF o[2] = << >> THEN << <<1, b \o o[4]>> >> ELSE << <<2, o[2]>>, <<1, b \o o[4]>> >>,
       meta_json |-> o[3]] :
        b \in SeqsUpTo({ Block(p, k, <<7>>) : p \in {0, 100}, k \in {BLK_I, BLK_P, BLK_B} }, MaxChainBlocks),
        o \in { << <<1>>, << >>, None, << >> >>,
                << <<1>>, << >>, None, << Block(200, BLK_I, <<7>>), Block(300, BLK_P, <<7>>) >> >>,
                << <<1, 2>>, << Block(0, BLK_I, <<8>>), Block(100, BLK_P, <<8, 8>>) >>, Some(<<9>>), << >> >>,
                << <<1>>, << Block(0, BLK_I, <<8>>) >>, None, << >> >> } }

GetDecodeChain ==
    /\ call = << >>
    /\ \E in \in GopInputs, t_ms \in {50, 100, 300} :
          \E built \in {mux_multitrack_gop(in.tracks, in.blocks_by_track, in.meta_json)} :
              call' = IF ~built.ok
                      THEN [op |-> "mux_multitrack_gop", in |-> in, ok |-> FALSE]
                      ELSE [op |-> "get_decode_chain", in |-> in, ok |-> TRUE, track_id |-> 1,
                            t_ms |-> t_ms,
                            core |-> pretty_list_core(built.data),
                            i_idx |-> find_keyframe_for_time(built.data, 1, t_ms),
                            chain |-> get_decode_chain(built.data, 1, t_ms)]
    /\ UNCHANGED <<containerVars, cipherVars, twin, bind>>

----------------------------------------------------------------------------
(* per-track seek as the CLI and the API expose it *)

RECURSIVE UnpackSeekPairs(_, _, _)
\* n (pts_us, core_index) pairs from 0-based position pos
UnpackSeekPairs(data, pos, n) ==
    IF n = 0 THEN << >>
    ELSE << << ReadU32(Slice(data, pos + 4, pos + 8)), ReadU32(Slice(data, pos + 8, pos + 12)) >> >>
           \o UnpackSeekPairs(data, pos + 12, n - 1)

RECURSIVE UnpackSeekTracks(_, _, _)
\* the (track_id, entries) of track_count tracks from 0-based position pos
UnpackSeekTracks(data, pos, track_count) ==
    IF track_count = 0 THEN << >>
    ELSE LET l == ReadU16(Slice(data, pos, pos + 2))
             n == ReadU32(Slice(data, pos + 2 + l, pos + 6 + l))
         IN  << << Slice(data, pos + 2, pos + 2 + l), UnpackSeekPairs(data, pos + 6 + l, n) >> >>
               \o UnpackSeekTracks(data, pos + 6 + l + 12 * n, track_count - 1)

\* unpack_seek_multi: track_id -> entries
unpack_seek_multi(data) ==
    LET tracks == UnpackSeekTracks(data, 4, ReadU32(Slice(data, 0, 4)))
    IN  [t \in { tracks[k][1] : k \in 1..Len(tracks) } |->
            tracks[CHOOSE k \in 1..Len(tracks) :
                      tracks[k][1] = t /\ \A j \in 1..Len(tracks) : tracks[j][1] = t => j <= k][2]]

RECURSIVE LastAtOrBefore(_, _, _, _)
\* the loop of cmd_seek and of seek_to_block: chosen starts as entries[0] and
\* moves on while the entry is at or before pts_us
LastAtOrBefore(entries, pts_us, k, chosen) ==
    IF k > Len(entries) THEN chosen
    ELSE IF entries[k][1] <= pts_us THEN LastAtOrBefore(entries, pts_us, k + 1, entries[k])
    ELSE chosen

\* seek_to_block, from the seekm_b64 text of META: the JSON answer
seek_to_block(seekm_b64, track_id, pts_us) ==
    LET seekm == IF seekm_b64 # << >> THEN unpack_seek_multi(b64decode(seekm_b64)) ELSE << >>
        entries == IF track_id \in DOMAIN seekm THEN seekm[track_id] ELSE << >>
        chosen == LastAtOrBefore(entries, pts_us, 1, entries[1])
    IN  IF entries = << >> THEN [track_id |-> track_id, pts_us |-> pts_us, found |-> FALSE]
        ELSE [track_id |-> track_id, pts_us |-> pts_us, keyframe_pts_us |-> chosen[1],
              core_index |-> chosen[2], found |-> TRUE]

\* cmd_seek: the return code and what is printed
cmd_seek(seekm_b64, track, pts_us) ==
    LET seekm == IF seekm_b64 # << >> THEN unpack_seek_multi(b64decode(seekm_b64)) ELSE << >>
        entries == IF track \in DOMAIN seekm THEN seekm[track] ELSE << >>
        chosen == LastAtOrBefore(entries, pts_us, 1, entries[1])
    IN  IF entries = << >> THEN [rc |-> 1]
        ELSE [rc |-> 0, track |-> track, pts_us |-> pts_us, keyframe_pts_us |-> chosen[1],
              core_index |-> chosen[2]]

\* the seekm_b64 text build_h4mk_tracks writes for a seek index of track "v"
SeekmTexts ==
    { b64encode(pack_seek_multi(IF s = << >> THEN << >> ELSE [t \in { <<118>> } |-> s])) :
        s \in { s \in SeekLists : \A i \in 1..(Len(s) - 1) : s[i][1] <= s[i + 1][1] } }

SeekToBlock ==
    /\ call = << >>
    /\ \E seekm_b64 \in SeekmTexts, track_id \in { <<118>>, <<97>> }, pts_us \in Targets :
          call' = [op |-> "seek_to_block", seekm_b64 |-> seekm_b64, track_id |-> track_id,
                   pts_us |-> pts_us, result |-> seek_to_block(seekm_b64, track_id, pts_us)]
    /\ UNCHANGED <<containerVars, cipherVars, twin, bind>>

CmdSeek ==
    /\ call = << >>
    /\ \E seekm_b64 \in SeekmTexts, track \in { <<118>>, <<97>> }, pts_us \in Targets :
          call' = [op |-> "cmd_seek", seekm_b64 |-> seekm_b64, track_id |-> track,
                   pts_us |-> pts_us, result |-> cmd_seek(seekm_b64, track, pts_us)]
    /\ UNCHANGED <<containerVars, cipherVars, twin, bind>>

-----------------------------------------------------------------------------
(* compression.loader and compression.load_engine: sealed loading of a binary core *)

\* depth of nested calls at which the interpreter raises RecursionError
RecursionLimit == 6

\* error of a constructor or loader call
LoadFails(err) == [ok |-> FALSE, err |-> err]

\* the CoreCompression object after a construction that returned
CoreEngine(lib) ==
    [ok |-> TRUE, engine |-> "core",
     engine_id |-> IF lib.id = None THEN "unknown" ELSE lib.id[1],
     fingerprint |-> IF lib.fp = None THEN "unverified" ELSE lib.fp[1]]

RECURSIVE _verify_seals(_, _, _)
\* CoreCompression._verify_seals at the given call depth: lib.id and lib.fp are
\* what h4_engine_id and h4_engine_fp give (None: symbol absent or null); both
\* seal checks are skipped when the pin or the library's value is missing, and
\* the method ends by calling itself again
_verify_seals(env, lib, depth) ==
    IF env.expected_id # None /\ lib.id # None /\ lib.id # env.expected_id
    THEN LoadFails("COMPRESSION CORE MISMATCH")
    ELSE IF env.expected_fp # None /\ lib.fp # None /\ lib.fp # env.expected_fp
    THEN LoadFails("COMPRESSION CORE ALTERED")
    ELSE IF depth >= RecursionLimit
    THEN LoadFails("RecursionError")
    ELSE _verify_seals(env, lib, depth + 1)

\* CoreCompression(lib_path): file.exists is os.path.exists(lib_path),
\* file.loads whether ctypes.CDLL succeeds, file.lib the library it gives
CoreCompression(env, file) ==
    IF ~file.exists THEN LoadFails("BinaryCoreMissing")
    ELSE IF ~file.loads THEN LoadFails("BinaryCoreMissing")
    ELSE LET seals == _verify_seals(env, file.lib, 1)
         IN  IF ~seals.ok THEN seals ELSE CoreEngine(file.lib)

\* load_engine() with no engine cached, under the given environment
load_engine_in(env, file) ==
    LET reference == [ok |-> TRUE] @@ EngineRef
    IN  IF env.core_path
        THEN LET core == CoreCompression(env, file)
             IN  IF core.ok THEN core
                 ELSE IF core.err = "BinaryCoreMissing" THEN reference
                 ELSE core
        ELSE reference

\* environments (HARMONY4_CORE_PATH set or not, the two pins) and library files
LoaderEnvs ==
    [core_path : BOOLEAN, expected_id : {None, Some("h4core-v1")},
     expected_fp : {None, Some("aa")}]

LoaderFiles ==
    [exists : BOOLEAN, loads : BOOLEAN,
     lib : [id : {None, Some("h4core-v1"), Some("h4core-v0")},
            fp : {None, Some("aa"), Some("bb")}]]

\* CoreCompression(lib_path), as the sealing tests call it
ConstructCore ==
    /\ call = << >>
    /\ \E env \in LoaderEnvs, file \in LoaderFiles :
         call' = [op |-> "CoreCompression", env |-> env, file |-> file,
                  result |-> CoreCompression(env, file)]
    /\ UNCHANGED <<containerVars, cipherVars, twin, bind>>

\* reset_engine() followed by load_engine()
LoadEngine ==
    /\ call = << >>
    /\ \E env \in LoaderEnvs, file \in LoaderFiles :
         call' = [op |-> "load_engine", env |-> env, file |-> file,
                  result |-> load_engine_in(env, file)]
    /\ UNCHANGED <<containerVars, cipherVars, twin, bind>>

-----------------------------------------------------------------------------
(* reference compressor, called on its own *)

MaxRuns == 3

\* inputs as up to MaxRuns stretches of one byte value each; neighbouring
\* stretches of the same value form one longer run
RunInputs ==
    { Concat([k \in 1..Len(d) |-> Repeat(d[k][1], d[k][2])]) :
        d \in SeqsUpTo({0, 255} \X {1, RUN_MAX, ALIGN}, MaxRuns) }

\* compressor.compress(data) followed by compressor.decompress of its result
CompressDecompress ==
    /\ call = << >>
    /\ \E data \in RunInputs :
         call' = IF ~CompressAccepts(data)
                 THEN [op |-> "compress", data |-> data, ok |-> FALSE]
                 ELSE LET compressed == compress(data)
                      IN  IF ~DecompressAccepts(compressed)
                          THEN [op |-> "decompress", data |-> data, ok |-> FALSE,
                                compressed |-> compressed]
                          ELSE [op |-> "decompress", data |-> data, ok |-> TRUE,
                                compressed |-> compressed,
                                recovered |-> decompress(compressed)]
    /\ UNCHANGED <<containerVars, cipherVars, twin, bind>>

-----------------------------------------------------------------------------
(* build_h4mk under the engine that load_engine() has cached *)

\* build_h4mk when load_engine() returns the cached engine whose info() is
\* info (compression/__init__.py returns _engine when it is set).  The CORE
\* payloads are those of the reference codec for every engine, so two files
\* can differ through the injected compression object only.
build_h4mk_with(info, core_blocks, seek_entries, meta, safe) ==
    LET prior == CoreChunks(core_blocks)
                   \o << Chunk(TagSEEK, pack_seek_entries(seek_entries)),
                         Chunk(TagMETA, pack_meta(meta \o CompressionObject(info))),
                         Chunk(TagSAFE, pack_meta(safe)) >>
    IN  Once(PackAll(prior),
             LAMBDA pre_veri :
                MAGIC \o U16(VERSION) \o U16(0) \o pre_veri \o Pack(Chunk(TagVERI, sha256(pre_veri))))

\* the META and VERI payloads of a built file, read back from its bytes
MetaAndVeri(data) ==
    Once(_parse(data).chunks,
         LAMBDA chunks : [meta |-> get_chunks(data, chunks, TagMETA),
                          veri |-> get_chunks(data, chunks, TagVERI)])

\* two runs of build_h4mk on the same arguments, each under a cached engine
BuildUnderEngines ==
    /\ call = << >>
    /\ \E core_blocks \in { << >>, << MakeBlock(0, 128, 1) >> }, meta \in MetaChoices,
          e1, e2 \in {EngineRef}
                       \cup [engine : {"core"}, engine_id : {"unknown", "h4core-v1", "h4core-v0"},
                             fingerprint : {"unverified", "aa", "bb"}] :
          \E f1 \in {build_h4mk_with(e1, core_blocks, << >>, meta, << >>)},
             f2 \in {build_h4mk_with(e2, core_blocks, << >>, meta, << >>)} :
             call' = [op |-> "build_h4mk", core_blocks |-> core_blocks, meta |-> meta,
                      engines |-> <<e1, e2>>,
                      same_as_loaded |-> (e1 = load_engine) =>
                                            f1 = build_h4mk(core_blocks, << >>, meta, << >>),
                      runs |-> <<MetaAndVeri(f1), MetaAndVeri(f2)>>]
    /\ UNCHANGED <<containerVars, cipherVars, twin, bind>>

\* reader: CORE blocks through decryption and decompression

header_size == 128

Unknown == <<117, 110, 107, 110, 111, 119, 110>>      \* "unknown"

\* bytes of a v3 header without dh_pub: magic, version, suite, counter,
\* prev_transcript, flags, then the bytes after the flags byte
HeaderLen(header) == 5 + 1 + 31 + 8 + 32 + 1 + Len(header.extra)

\* bytes of a CORE payload header || ciphertext (ciphertext ends with a 16-byte tag)
PayloadLen(block) == HeaderLen(block.h) + Len(block.c.pt) + 16

\* block_payload[:header_size], block_payload[header_size:]; bytes of the
\* ciphertext that fall inside the window end up behind the header, and what
\* is left of the ciphertext no longer carries what was sealed
SplitPayload(block) ==
    IF PayloadLen(block) > header_size /\ HeaderLen(block.h) = header_size
    THEN [header |-> block.h, ciphertext |-> block.c]
    ELSE [header |-> [block.h EXCEPT !.extra = @ \o <<"ciphertext">>],
          ciphertext |-> [block.c EXCEPT !.tag_ok = FALSE]]

\* one item of the iteration: dec is "none" (no decryption attempted), "ok" or
\* "failed"; raised tells that the generator raised at this block; out is what
\* it yielded: the bytes, or the block itself for bytes the cipher never opened
CoreItem(dec, err, raised, src, out) ==
    [dec |-> dec, err |-> err, raised |-> raised, src |-> src, out |-> out]

\* compressor.decompress(block_payload) / block_payload of one block
YieldBlock(dec, err, block, opened, pt, want_decompress) ==
    IF ~want_decompress
    THEN CoreItem(dec, err, FALSE, IF opened THEN "plaintext" ELSE "payload",
                  IF opened THEN pt ELSE block)
    ELSE IF opened
    THEN IF DecompressAccepts(pt)
         THEN CoreItem(dec, err, FALSE, "plaintext", decompress(pt))
         ELSE CoreItem(dec, err, TRUE, "plaintext", << >>)
    ELSE IF PayloadLen(block) % 2 = 0
         THEN CoreItem(dec, err, FALSE, "payload", block)
         ELSE CoreItem(dec, err, TRUE, "payload", << >>)

RECURSIVE IterCoreFrom(_, _, _, _, _, _)
IterCoreFrom(core, k, meta, want_decompress, cipher_state, items) ==
    IF k > Len(core) \/ (items # << >> /\ items[Len(items)].raised)
    THEN items
    ELSE IF cipher_state # None /\ meta.encryption
    THEN LET ctx == CoreContext(meta.engine_id, meta.fingerprint, Unknown,
                                meta.track_id, meta.pts_us, k - 1)
             s == SplitPayload(core[k])
             d == decrypt_core_block(cipher_state, s.header, s.ciphertext, ctx)
         IN  IterCoreFrom(core, k + 1, meta, want_decompress, d.st,
                 Append(items,
                     YieldBlock(IF d.ok THEN "ok" ELSE "failed", d.err, core[k],
                                d.ok, d.pt, want_decompress)))
    ELSE IterCoreFrom(core, k + 1, meta, want_decompress, cipher_state,
             Append(items, YieldBlock("none", "", core[k], FALSE, << >>, want_decompress)))

iter_core_blocks(core, meta, want_decompress, cipher_state) ==
    Once(core, LAMBDA c : IterCoreFrom(c, 1, meta, want_decompress, cipher_state, << >>))

MaxCoreBlocks == 2

\* payloads a CORE block carries before it is sealed: a compressed run, one
\* byte (no compressed stream), twenty runs
CorePlaintexts == { <<7, 2>>, <<7>>, [i \in 1..40 |-> IF i % 2 = 1 THEN 7 ELSE 1] }

\* what META gives the reader
ReaderMeta(encryption) ==
    [ encryption |-> encryption, engine_id |-> <<103>>, fingerprint |-> <<102>>,
      track_id |-> Unknown, pts_us |-> 0 ]

\* the blocks a writer holding the sender's state seals one after the other:
\* block i under the context the reader derives (veri = that veri) or under
\* the container's digest, its header padded or not
RECURSIVE SealBlocks(_, _, _, _, _, _)
SealBlocks(state, pts, veris, pads, i, acc) ==
    IF i > Len(pts)
    THEN acc
    ELSE LET ctx == CoreContext(<<103>>, <<102>>, veris[i], Unknown, 0, i - 1)
             r == encrypt_flagged(state, pts[i], CoreContext_aad(ctx), 0, Repeat(0, pads[i]))
         IN  SealBlocks(r.st, pts, veris, pads, i + 1,
                        Append(acc, [h |-> r.header, c |-> r.ct, pt |-> pts[i]]))

IterCoreBlocks ==
    /\ call = << >>
    /\ \E n \in 1..MaxCoreBlocks, want_decompress \in BOOLEAN, keyed \in BOOLEAN,
          encryption \in BOOLEAN :
       \E pts \in [1..n -> CorePlaintexts], veris \in [1..n -> {Unknown, <<100, 101>>}],
          pads \in [1..n -> {0, header_size - 78}], bad \in SUBSET (1..n) :
       \E sealed \in { SealBlocks(PeerSender, pts \o << >>, veris, pads, 1, << >>) } :
       \E core \in { [i \in 1..n |-> IF i \in bad
                                     THEN [sealed[i] EXCEPT !.c.tag_ok = FALSE]
                                     ELSE sealed[i]] \o << >> } :
          call' = [ op |-> "iter_core_blocks", core |-> core, want_decompress |-> want_decompress,
                    keyed |-> keyed, encryption |-> encryption,
                    items |-> iter_core_blocks(core, ReaderMeta(encryption), want_decompress,
                                               IF keyed THEN PeerReceiver ELSE None) ]
    /\ UNCHANGED <<containerVars, cipherVars, twin, bind>>

\* decoding a chain with the NullAdapter (examples/build_and_decode.py)

\* NullAdapter.decode_I: a fresh NullState holding the block
NullAdapter_decode_I(opaque) == [blocks |-> <<opaque>>]

\* NullAdapter.apply_P: the block appended to the state
NullAdapter_apply_P(state, opaque) == [blocks |-> Append(state.blocks, opaque)]

\* NullAdapter.finalize: b"".join(state.blocks)
NullAdapter_finalize(state) == Concat(state.blocks)

\* variant: every block is handed to decode_I
AdapterStep_always_I(state, opaque) ==
    [fn |-> "decode_I", state |-> NullAdapter_decode_I(opaque)]

\* the body of the for loop of test_full_decode: decode_I while there is no
\* state, apply_P afterwards
AdapterStep(state, opaque) ==
    IF state = None
    THEN [fn |-> "decode_I", state |-> NullAdapter_decode_I(opaque)]
    ELSE [fn |-> "apply_P", state |-> NullAdapter_apply_P(state, opaque)]

\* extract raises for an index at which no chunk payload starts
ExtractRaises(container, index) ==
    \E infos \in {parse(container, FALSE).chunks} :
        \A j \in 1..Len(infos) : infos[j].index # index

\* test_full_decode up to the for loop: the chain of track 1 at t_ms = 200
StartFullDecode ==
    /\ call = << >>
    /\ \E in \in GopInputs :
          \E built \in {mux_multitrack_gop(in.tracks, in.blocks_by_track, in.meta_json)} :
              /\ built.ok
              /\ \E chain \in {get_decode_chain(built.data, 1, 200)} :
                    call' = [ op |-> "test_full_decode", container |-> built.data,
                              chain |-> chain, pos |-> 0, state |-> None, log |-> << >>,
                              phase |-> IF chain = << >> THEN "Returned" ELSE "AwaitingI" ]
    /\ UNCHANGED <<containerVars, cipherVars, twin, bind>>

\* one pass of the for loop
DecodeChunk ==
    /\ call # << >>
    /\ call.op = "test_full_decode"
    /\ call.phase \in {"AwaitingI", "HaveState"}
    /\ call.pos < Len(call.chain)
    /\ \E chunk_idx \in {call.chain[call.pos + 1]} :
          IF ExtractRaises(call.container, chunk_idx)
          THEN call' = [call EXCEPT !.phase = "Error"]
          ELSE \E opaque \in {unwrap_core_payload(extract(call.container, chunk_idx))[2]} :
               \E r \in {AdapterStep(call.state, opaque)} :
                  call' = [call EXCEPT !.pos = @ + 1, !.state = r.state,
                                       !.log = Append(@, [fn |-> r.fn, opaque |-> opaque]),
                                       !.phase = "HaveState"]
    /\ UNCHANGED <<containerVars, cipherVars, twin, bind>>

\* output = adapter.finalize(state) after the loop
Finalize ==
    /\ call # << >>
    /\ call.op = "test_full_decode"
    /\ call.phase = "HaveState"
    /\ call.pos = Len(call.chain)
    /\ call' = [call EXCEPT !.phase = "Rendered",
                            !.log = Append(@, [fn |-> "finalize",
                                               opaque |-> NullAdapter_finalize(call.state)])]
    /\ UNCHANGED <<containerVars, cipherVars, twin, bind>>

\* the track id of every TSEK chunk of the container, in file order
TsekTrackIds(container) ==
    Once(SelectSeq(parse(container, TRUE).chunks, LAMBDA ci : ci.ctype = T_TSEK),
         LAMBDA tsek :
            [i \in 1..Len(tsek) |-> ReadU16LE(Slice(extract(container, tsek[i].index), 4, 6))]
                \o << >>)

\* the seek tables read back from the container mux_multitrack_gop returns
ReadTrackSeekTables ==
    /\ call = << >>
    /\ \E in \in GopInputs :
          \E built \in {mux_multitrack_gop(in.tracks, in.blocks_by_track, in.meta_json)} :
              /\ built.ok
              /\ call' = [ op |-> "_read_track_seek_tables", in |-> in,
                           core |-> pretty_list_core(built.data),
                           tsek_tids |-> TsekTrackIds(built.data),
                           tables |-> _read_track_seek_tables(built.data) ]
    /\ UNCHANGED <<containerVars, cipherVars, twin, bind>>

NextIndex ==
    BuildSeekPerTrack \/ SeekToPts \/ SeekTableSeek \/ GetDecodeChain \/ SeekToBlock \/ CmdSeek
        \/ CompressDecompress \/ ConstructCore \/ LoadEngine \/ BuildUnderEngines
        \/ IterCoreBlocks \/ StartFullDecode \/ DecodeChunk \/ Finalize \/ ReadTrackSeekTables

SpecIndex == InitIndex /\ [][NextIndex]_vars

----------------------------------------------------------------------------
(* SeekTable: one table through a sequence of add / finalize / seek /
   serialize calls *)

MaxTableCalls == 4        \* calls made on the table

\* SeekTable.serialize of a finalized table: "SEEK", count u32, then pts u64
\* and offset u64 of every entry, little-endian (values below 2^32)
SeekTable_serialize(entries) ==
    <<83, 69, 69, 75>> \o U32LE(Len(entries))
        \o Concat([i \in 1..Len(entries) |->
                      U32LE(entries[i][1]) \o <<0, 0, 0, 0>> \o U32LE(entries[i][2]) \o <<0, 0, 0, 0>>])

\* SeekTable(): no entries, not finalized
InitSeekTable ==
    /\ OthersIdle
    /\ call = [ op |-> "SeekTable", entries |-> << >>, finalized |-> FALSE, n |-> 0,
                fn |-> "__init__", raised |-> FALSE, result |-> None,
                pre |-> [entries |-> << >>, finalized |-> FALSE] ]

\* the table after a call fn that left it with entries and finalized
TableAfter(fn, entries, finalized, raised, result) ==
    [ op |-> "SeekTable", entries |-> entries, finalized |-> finalized, n |-> call.n + 1,
      fn |-> fn, raised |-> raised, result |-> result,
      pre |-> [entries |-> call.entries, finalized |-> call.finalized] ]

TableAdd ==
    /\ call.n < MaxTableCalls
    /\ \E pts \in {1000, 2000, 3000} :
          call' = IF call.finalized
                  THEN TableAfter("add", call.entries, call.finalized, TRUE, None)
                  ELSE TableAfter("add", Append(call.entries, <<pts, 40 * (Len(call.entries) + 1)>>),
                                  call.finalized, FALSE, None)
    /\ UNCHANGED <<containerVars, cipherVars, twin, bind>>

TableFinalize ==
    /\ call.n < MaxTableCalls
    /\ call' = IF ~call.finalized
               THEN TableAfter("finalize", SeekTable_finalize(call.entries), TRUE, FALSE, None)
               ELSE TableAfter("finalize", call.entries, call.finalized, FALSE, None)
    /\ UNCHANGED <<containerVars, cipherVars, twin, bind>>

TableSeek ==
    /\ call.n < MaxTableCalls
    /\ \E pts \in Targets :
          call' = IF ~call.finalized
                  THEN TableAfter("seek", call.entries, call.finalized, TRUE, None)
                  ELSE TableAfter("seek", call.entries, call.finalized, FALSE,
                                  SeekTable_seek(call.entries, pts))
    /\ UNCHANGED <<containerVars, cipherVars, twin, bind>>

TableSerialize ==
    /\ call.n < MaxTableCalls
    /\ \E entries \in { IF ~call.finalized THEN SeekTable_finalize(call.entries)
                        ELSE call.entries } :
          call' = TableAfter("serialize", entries, TRUE, FALSE, SeekTable_serialize(entries))
    /\ UNCHANGED <<containerVars, cipherVars, twin, bind>>

NextSeekTable == TableAdd \/ TableFinalize \/ TableSeek \/ TableSerialize

SpecSeekTable == InitSeekTable /\ [][NextSeekTable]_vars

----------------------------------------------------------------------------
(* Claims *)

\* the transcript a state holds after the first k messages of sent, spelled out
TranscriptAfter(k) == [j \in 1..k |-> [h |-> sent[j].h, c |-> sent[j].c]]

\* the receive chain of st is the sender's initial send chain, stepped once for
\* every counter below recv_counter
Paired(st) ==
    st.chain_key_recv =
        [PeerSender.chain_key_send EXCEPT !.steps = [j \in 1..st.recv_counter |-> j - 1]]

(* C1: every container produced by build_h4mk passes the reader's
   verify_integrity: the reader hashes the same bytes as the writer stored
   in VERI. *)
C1_BuiltContainerVerifies == pcC = "verified" => verify_result = TRUE

(* C2: once a decrypt has returned the plaintext of a message on an
   out-of-order path (key cached, or counter ahead of recv_counter), a later
   decrypt of the same header and ciphertext raises. *)
C2_OooReplayRejected == (last.op = "decrypt" /\ last.replay) => ~last.ok

(* C3: after any sequence of decrypt calls the skipped-key map holds at most
   2 * ooo_window entries, all within
   [recv_counter - ooo_window, recv_counter + ooo_window]. *)
C3_SkippedBounded ==
    /\ Cardinality(DOMAIN rcv.skipped_keys) <= 2 * OooWindow
    /\ \A k \in DOMAIN rcv.skipped_keys :
          rcv.recv_counter - OooWindow <= k /\ k <= rcv.recv_counter + OooWindow

C3_Witness ==
    /\ last.op = "decrypt" /\ ~last.ok /\ last.path = "ahead"
    /\ rcv.recv_counter > 0
    /\ Cardinality(DOMAIN rcv.skipped_keys) = OooWindow

(* C4: decrypt changes recv_counter or transcript only when it accepts a
   message in order (header counter = recv_counter, prev_transcript = the
   transcript, AEAD passes); then recv_counter grows by exactly 1 and the
   transcript becomes the hash of (transcript, header, ciphertext).  Decrypts
   served from the cache or ahead of recv_counter leave both unchanged. *)
C4_OnlyInOrderCommits ==
    last.op = "decrypt" =>
        /\ (rcv.recv_counter # last.pre.recv_counter \/ rcv.transcript # last.pre.transcript)
              => /\ last.ok
                 /\ last.hdr.counter = last.pre.recv_counter
                 /\ last.hdr.prev_transcript = last.pre.transcript
                 /\ last.ct.tag_ok
        /\ (last.ok /\ last.path = "inorder")
              => /\ rcv.recv_counter = last.pre.recv_counter + 1
                 /\ rcv.transcript =
                        Append(last.pre.transcript, [h |-> last.hdr, c |-> last.ct])
        /\ last.path \in {"cached", "ahead"}
              => /\ rcv.recv_counter = last.pre.recv_counter
                 /\ rcv.transcript = last.pre.transcript

C4_Witness ==
    /\ last.op = "decrypt" /\ last.ok /\ last.path = "inorder"
    /\ ooo_done # {}

(* C5: with a paired receiver, a genuine message whose counter lies in
   [recv_counter, recv_counter + ooo_window] decrypts to its plaintext in
   whatever order the messages arrive, and a genuine message with a larger
   counter is rejected as out-of-order too far. *)
C5_WindowDecrypts ==
    (last.op = "decrypt" /\ last.msg > 0 /\ Paired(last.pre)) =>
        /\ (/\ last.hdr.counter >= last.pre.recv_counter
            /\ last.hdr.counter <= last.pre.recv_counter + OooWindow)
              => (last.ok /\ last.pt = sent[last.msg].pt)
        /\ last.hdr.counter > last.pre.recv_counter + OooWindow
              => (~last.ok /\ last.err = "out-of-order too far")

(* C6: an in-order stream survives the root-ratchet boundary: every message
   delivered in order, the one with counter root_ratchet_every and the later
   ones included, decrypts to its plaintext. *)
C6_SurvivesRootRatchet ==
    (last.op = "decrypt" /\ last.seq_ok) => (last.ok /\ last.pt = sent[last.msg].pt)

(* C7: with fewer than root_ratchet_every messages delivered in order to a
   paired receiver, the k-th decrypt returns the k-th plaintext, leaves
   recv_counter = k and a non-zero transcript equal to the sender's transcript
   after its k-th encrypt. *)
C7_InOrderRoundTrip ==
    (last.op = "decrypt" /\ last.seq_ok /\ ncalls <= RootRatchetEvery) =>
        /\ last.ok
        /\ last.pt = sent[ncalls].pt
        /\ rcv.recv_counter = ncalls
        /\ rcv.transcript = TranscriptAfter(ncalls)
        /\ rcv.transcript # << >>
        /\ Len(sent) = ncalls => rcv.transcript = snd.transcript

C7_Witness ==
    /\ last.op = "decrypt" /\ last.seq_ok
    /\ ncalls = RootRatchetEvery
    /\ Len(sent) = ncalls

(* C8: a header whose counter is below recv_counter (a message already
   committed in order, also one below recv_counter - ooo_window) is rejected:
   decrypt raises and returns no plaintext. *)
C8_CommittedReplayRejected ==
    (last.op = "decrypt" /\ last.hdr.counter < last.pre.recv_counter) =>
        (~last.ok /\ last.pt = None)

C8_Witness ==
    /\ last.op = "decrypt" /\ last.msg > 0
    /\ last.hdr.counter < last.pre.recv_counter - OooWindow

(* C9: an in-order header (counter = recv_counter, not cached) whose
   prev_transcript differs from the receiver's transcript is rejected with the
   transcript-mismatch error, and the call leaves recv_counter, transcript and
   chain_key_recv unchanged. *)
C9_MismatchLeavesState ==
    ( /\ last.op = "decrypt"
      /\ last.hdr.suite = SUITE
      /\ last.hdr.counter = last.pre.recv_counter
      /\ last.hdr.counter \notin DOMAIN last.pre.skipped_keys
      /\ last.hdr.prev_transcript # last.pre.transcript ) =>
        /\ ~last.ok
        /\ last.err = "transcript mismatch (tamper/reorder)"
        /\ rcv.recv_counter = last.pre.recv_counter
        /\ rcv.transcript = last.pre.transcript
        /\ rcv.chain_key_recv = last.pre.chain_key_recv

(* C10: encrypt is sequential: the N-th call returns a header with counter
   N - 1 and with the transcript left by the N - 1 earlier calls (zero for the
   first), and each call adds exactly 1 to send_counter. *)
C10_EncryptSequential ==
    /\ snd.send_counter = Len(sent)
    /\ snd.transcript = TranscriptAfter(Len(sent))
    /\ \A n \in 1..Len(sent) :
          /\ sent[n].h.counter = n - 1
          /\ sent[n].h.prev_transcript = TranscriptAfter(n - 1)

C10_Witness == Len(sent) = MaxSendPaired /\ snd.send_counter > RootRatchetEvery

(* C11: a header returned by encrypt carries the dh flag and one dh_pub exactly
   when its counter c has c > 0 and c mod root_ratchet_every = 0; every other
   header has flags = 0 and nothing after the flags byte. *)
C11_DhFlagOnBoundary ==
    \A n \in 1..Len(sent) :
        LET h == sent[n].h
        IN  IF RootRatchetEvery > 0 /\ h.counter > 0 /\ h.counter % RootRatchetEvery = 0
            THEN h.flags = 1 /\ Len(h.extra) = 1 /\ _parse_header_v3(h).dh_pub # None
            ELSE h.flags = 0 /\ h.extra = << >> /\ _parse_header_v3(h).dh_pub = None

C11_Witness ==
    /\ \E n \in 1..Len(sent) : sent[n].h.flags = 1
    /\ \E n \in 1..Len(sent) : sent[n].h.counter > RootRatchetEvery /\ sent[n].h.flags = 0

(* C12: two states initialised from the same secret and context that encrypt
   the same sequence of (plaintext, aad) return the same header and the same
   ciphertext at every step, as long as no root-ratchet boundary was crossed
   or the fresh key pairs drawn at the boundaries were the same. *)
C12_EncryptDeterministic ==
    /\ Len(twin.out) = Len(sent)
    /\ \A n \in 1..Len(sent) :
          (n <= RootRatchetEvery \/ twin.out[n].same) =>
              /\ twin.out[n].h = sent[n].h
              /\ twin.out[n].c = sent[n].c

C12_Witness ==
    /\ Len(sent) = MaxSendTwin
    /\ twin.out[MaxSendTwin].same
    /\ sent[MaxSendTwin].c.ad.aad # NoAad
    /\ snd.dh_priv # PeerSender.dh_priv
    /\ twin.st.dh_priv = snd.dh_priv

(* C13: within one sending state no message key is used twice: every encrypt
   derives its key from a (chain key, counter) pair no earlier encrypt used,
   sends of the same plaintext give different ciphertexts, and the send chain
   key changes at every call. *)
C13_MessageKeysNeverRepeat ==
    /\ \A i \in 1..Len(sent) : \A j \in 1..Len(sent) :
          i < j => /\ sent[i].c.key # sent[j].c.key
                   /\ sent[i].c.nonce # sent[j].c.nonce
                   /\ sent[i].c # sent[j].c
    /\ \A n \in 1..Len(sent) :
          sent[n].c.key.ck # (IF n < Len(sent) THEN sent[n + 1].c.key.ck ELSE snd.chain_key_send)

C13_Witness ==
    /\ Len(sent) > RootRatchetEvery
    /\ \A n \in 1..Len(sent) : sent[n].pt = sent[1].pt

(* C14: a CORE block encrypted under one CoreContext and decrypted under a
   context that differs from it in pts_us, chunk_index or any other field
   fails AEAD verification: decrypt_core_block raises and returns no
   plaintext. *)
C14_OtherContextRejected ==
    (last.op = "decrypt_core_block" /\ bind.dec # bind.enc) =>
        (~last.ok /\ last.pt = None)

(* C15: CoreContext.aad is injective: two contexts that differ in a field
   have different AAD strings, also when string fields contain "|". *)
C15_AadInjective ==
    bind.enc # bind.dec => CoreContext_aad(bind.enc) # CoreContext_aad(bind.dec)

(* C16: decrypt raises on a header whose flags byte has a bit other than 0x01
   set, while bytes after the declared fields of a header do not make the
   parse fail. *)
C16_UnknownFlagsRejected ==
    last.op = "decrypt" =>
        /\ last.hdr.flags \div 2 > 0 => ~last.ok
        /\ last.path # "parse"

(* C17: in every container build_h4mk writes, the chunks are the CORE chunks,
   one per input block in input order, then exactly one SEEK, one META, one
   SAFE and one VERI chunk, VERI last. *)
C17_ChunkOrder ==
    /\ pcC # "failed"
    /\ pcC \in {"parsed", "verified"} =>
          LET n == Len(built_from.core_blocks)
              payload(i) == Slice(blob, rd_chunks[i].offset, rd_chunks[i].offset + rd_chunks[i].size)
          IN  /\ Len(rd_chunks) = n + 4
              /\ \A i \in 1..n : /\ rd_chunks[i].tag = TagCORE
                                 /\ payload(i) = compress(built_from.core_blocks[i])
              /\ rd_chunks[n + 1].tag = TagSEEK
              /\ rd_chunks[n + 2].tag = TagMETA
              /\ rd_chunks[n + 3].tag = TagSAFE
              /\ rd_chunks[n + 4].tag = TagVERI
              /\ rd_chunks[n + 4].offset + rd_chunks[n + 4].size = Len(blob)

C17_Witness ==
    /\ pcC = "parsed"
    /\ Len(built_from.core_blocks) = MaxBlocks
    /\ built_from.core_blocks[1] # built_from.core_blocks[2]

(* C18: VERI detects tampering: when the chunks before the VERI chunk of a
   container were altered with every chunk's own CRC kept valid (a payload
   changed, chunks reordered, a chunk removed, a chunk of any tag inserted),
   verify_integrity returns false. *)
C18_TamperDetected == pcC = "verified_altered" => verify_result = FALSE

(* C19: parsing raises for every truncation of a container that cuts inside a
   chunk (in its 12-byte header or in its payload) and for every chunk whose
   stored CRC differs from the CRC of its payload; the reader never exposes a
   chunk with a mismatching CRC. *)
C19_DamageFailsParsing ==
    /\ pcC # "parsed_damaged"
    /\ \A i \in 1..Len(rd_chunks) :
          rd_chunks[i].crc =
              _crc32(Slice(blob, rd_chunks[i].offset, rd_chunks[i].offset + rd_chunks[i].size))

(* C20: a container written by build_h4mk_tracks has exactly one CORE chunk
   per block and one TRAK entry per block, and the core_index of the entry of
   a block is the position, in the in-order CORE chunk stream, of the chunk
   holding the compressed payload of that block. *)
C20_TrakIndexesCore ==
    pcC \in {"parsed", "verified"} =>
        LET blocks == built_from.blocks
            core == get_chunks(blob, rd_chunks, TagCORE)
            meta == get_chunks(blob, rd_chunks, TagMETA)[1]
            trak == unpack_trak(b64decode(JsonGet(meta, KeyTrak)))
        IN  /\ Len(core) = Len(blocks)
            /\ Len(trak) = Len(blocks)
            /\ \A i \in 1..Len(blocks) :
                  /\ trak[i].track_id = blocks[i].track_id
                  /\ trak[i].pts_us = blocks[i].pts_us
                  /\ trak[i].core_index = i - 1
                  /\ core[trak[i].core_index + 1] = compress(blocks[i].payload)

C20_Witness ==
    /\ pcC = "parsed"
    /\ Len(built_from.blocks) = MaxTrackBlocks
    /\ built_from.blocks[1].payload # built_from.blocks[2].payload
    /\ built_from.blocks[1].track_id # built_from.blocks[2].track_id

(* C21: for any TRAK entry list, the index built by build_seek_per_track
   holds, for each track, exactly the keyframe entries of that track, each with
   its own core_index, in strictly increasing pts_us order. *)
C21_SeekIndexExact ==
    (call # << >> /\ call.op = "build_seek_per_track") =>
        LET entries == call.entries
            seek == call.seek
            ids == { entries[i].track_id : i \in 1..Len(entries) }
        IN  /\ DOMAIN seek \subseteq ids
            /\ \A t \in ids :
                  LET kf == SelectSeq(entries, LAMBDA e : e.track_id = t /\ e.keyframe)
                      lst == IF t \in DOMAIN seek THEN seek[t] ELSE << >>
                  IN  /\ Len(lst) = Len(kf)
                      /\ \A i \in 1..Len(kf) :
                            \E j \in 1..Len(lst) : lst[j] = <<kf[i].pts_us, kf[i].core_index>>
                      /\ \A i, j \in 1..Len(lst) : i < j => lst[i][1] < lst[j][1]

(* C22: in a container built by build_h4mk_tracks from blocks whose kind and
   keyframe flag come from kind_for and is_keyframe, every TRAK entry has
   keyframe = true exactly when its kind is "I", for every index and GOP
   configuration. *)
C22_KeyframeIffI ==
    pcC \in {"parsed", "verified"} =>
        LET meta == get_chunks(blob, rd_chunks, TagMETA)[1]
            trak == unpack_trak(b64decode(JsonGet(meta, KeyTrak)))
        IN  /\ Len(trak) = Len(built_from.blocks)
            /\ \A i \in 1..Len(trak) : trak[i].keyframe <=> (trak[i].kind = <<73>>)

C22_Witness ==
    /\ pcC = "parsed"
    /\ LET trak == unpack_trak(b64decode(JsonGet(get_chunks(blob, rd_chunks, TagMETA)[1], KeyTrak)))
       IN  /\ \E i \in 1..Len(trak) : trak[i].keyframe /\ trak[i].pts_us > 0
           /\ \E i \in 1..Len(trak) : trak[i].kind = <<66>>
           /\ \E i \in 1..Len(trak) : trak[i].kind = <<80>>

(* C23: over a seek table sorted by pts, each keyframe lookup
   (H4MKReader.seek_to_pts, SeekTable.seek, find_keyframe_for_time) returns an
   entry with the greatest pts that is <= t, and returns none when the table is
   empty or every pts exceeds t. *)
C23_LookupIsFloor ==
    /\ (call # << >> /\ call.op \in {"seek_to_pts", "SeekTable.seek"}) =>
          LET atOrBefore == { i \in 1..Len(call.table) : call.table[i][1] <= call.t }
          IN  IF atOrBefore = {} THEN call.result = None
              ELSE /\ call.result # None
                   /\ \E i \in atOrBefore :
                         /\ call.result[1] = call.table[i]
                         /\ \A j \in atOrBefore : call.table[j][1] <= call.table[i][1]
    /\ (call # << >> /\ call.op = "get_decode_chain") =>
          LET keys == { i \in 1..Len(call.core) :
                          /\ call.core[i].track_id = call.track_id
                          /\ call.core[i].blk = BLK_I
                          /\ call.core[i].pts_ms <= call.t_ms }
          IN  IF keys = {} THEN call.i_idx = None
              ELSE /\ call.i_idx # None
                   /\ \E i \in keys :
                         /\ call.i_idx[1] = call.core[i].chunk_index
                         /\ \A j \in keys : call.core[j].pts_ms <= call.core[i].pts_ms

C23_Witness ==
    /\ call # << >>
    /\ call.op = "seek_to_pts"
    /\ Len(call.table) = MaxTable
    /\ call.result = Some(call.table[2])
    /\ call.table[3][1] > call.t

(* C24: cmd_seek and seek_to_block report "no keyframe" when the track's
   seek list is empty or every entry's pts_us exceeds the requested pts_us, and
   never return a keyframe whose pts_us is greater than the requested pts_us. *)
C24_NoKeyframeAfterTarget ==
    (call # << >> /\ call.op \in {"seek_to_block", "cmd_seek"}) =>
        LET seekm == unpack_seek_multi(b64decode(call.seekm_b64))
            entries == IF call.track_id \in DOMAIN seekm THEN seekm[call.track_id] ELSE << >>
            found == IF call.op = "cmd_seek" THEN call.result.rc = 0 ELSE call.result.found
        IN  /\ (\A i \in 1..Len(entries) : entries[i][1] > call.pts_us) => ~found
            /\ found => call.result.keyframe_pts_us <= call.pts_us

(* C25: build_h4mk_tracks emits CORE chunks in (pts_us ascending, track_id
   ascending) order: for any input block list, consecutive CORE chunks and
   their TRAK entries are non-decreasing in (pts_us, track_id). *)
C25_CoreOrderedByPtsTrack ==
    pcC \in {"parsed", "verified"} =>
        LET meta == get_chunks(blob, rd_chunks, TagMETA)[1]
            trak == unpack_trak(b64decode(JsonGet(meta, KeyTrak)))
        IN  \A i \in 1..(Len(trak) - 1) :
               /\ trak[i].core_index < trak[i + 1].core_index
               /\ \/ trak[i].pts_us < trak[i + 1].pts_us
                  \/ /\ trak[i].pts_us = trak[i + 1].pts_us
                     /\ trak[i].track_id[1] <= trak[i + 1].track_id[1]

(* C26: for a container built by mux_multitrack_gop and a (track, t) for which
   the track has an I-block with pts <= t, get_decode_chain returns a non-empty
   chain whose first element is an I-block of the track with the greatest
   pts <= t, whose other elements are non-I blocks of the same track with
   pts <= t in ascending pts order, and which holds no block at or after the
   next I-block of the track. *)
C26_ChainWithinGop ==
    (call # << >> /\ call.op = "get_decode_chain") =>
        LET core == call.core
            Row(idx) == CHOOSE i \in 1..Len(core) : core[i].chunk_index = idx
            keys == { i \in 1..Len(core) :
                        /\ core[i].track_id = call.track_id
                        /\ core[i].blk = BLK_I
                        /\ core[i].pts_ms <= call.t_ms }
            chain == call.chain
        IN  keys # {} =>
              /\ chain # << >>
              /\ \A k \in 1..Len(chain) : \E i \in 1..Len(core) : core[i].chunk_index = chain[k]
              /\ Row(chain[1]) \in keys
              /\ \A j \in keys : core[j].pts_ms <= core[Row(chain[1])].pts_ms
              /\ \A k \in 2..Len(chain) :
                    /\ core[Row(chain[k])].track_id = call.track_id
                    /\ core[Row(chain[k])].blk # BLK_I
                    /\ core[Row(chain[k])].pts_ms <= call.t_ms
                    /\ core[Row(chain[k - 1])].pts_ms <= core[Row(chain[k])].pts_ms
                    /\ Row(chain[k - 1]) < Row(chain[k])
                    \* no I-block of the track lies between the seed and this block
                    /\ \A i \in 1..Len(core) :
                          (core[i].track_id = call.track_id /\ core[i].blk = BLK_I)
                              => ~(Row(chain[1]) < i /\ i < Row(chain[k]))

C26_Witness ==
    /\ call # << >>
    /\ call.op = "get_decode_chain"
    /\ Len(call.chain) >= 2
    /\ \E i \in 1..Len(call.core) :
          /\ call.core[i].track_id = call.track_id
          /\ call.core[i].blk = BLK_I
          /\ call.core[i].chunk_index > call.chain[Len(call.chain)]
          /\ \E j \in (i + 1)..Len(call.core) :
                call.core[j].track_id = call.track_id /\ call.core[j].blk # BLK_I

(* C27: when the decode chain for (track, t) holds a B-block and the track has
   a later I-block, the resolver also includes that next I-block, as the
   next-state seed. *)
C27_NextSeedIncluded ==
    (call # << >> /\ call.op = "get_decode_chain") =>
        LET core == call.core
            Row(idx) == CHOOSE i \in 1..Len(core) : core[i].chunk_index = idx
            chain == call.chain
            tailRow == Row(chain[Len(chain)])
            later == { i \in (tailRow + 1)..Len(core) :
                         core[i].track_id = call.track_id /\ core[i].blk = BLK_I }
        IN  (/\ chain # << >>
             /\ \E k \in 1..Len(chain) : core[Row(chain[k])].blk = BLK_B
             /\ later # {})
            => \E k \in 1..Len(chain) :
                  /\ Row(chain[k]) \in later
                  /\ \A i \in later : Row(chain[k]) <= i

\* C28: the reference compressor is lossless: for every byte string x that
\* compress accepts, decompress(compress(x)) = x, and every (value, count) pair
\* that compress emits has 1 <= count <= 255, so longer runs are split
C28_Lossless ==
    (call # << >> /\ call.op \in {"compress", "decompress"} /\ CompressAccepts(call.data)) =>
        /\ call.op = "decompress"
        /\ call.ok
        /\ call.recovered = call.data
        /\ \A k \in 1..(Len(call.compressed) \div 2) :
              call.compressed[2 * k] >= 1 /\ call.compressed[2 * k] <= 255

\* a run of more than 255 equal bytes was split into two pairs and recovered
C28_Witness ==
    /\ call # << >>
    /\ call.op = "decompress"
    /\ call.ok
    /\ Len(call.data) >= 2 * ALIGN
    /\ \E k \in 1..(Len(call.compressed) \div 2 - 1) :
          /\ call.compressed[2 * k] = 255
          /\ call.compressed[2 * k + 1] = call.compressed[2 * k - 1]
    /\ call.recovered = call.data

\* C29: whenever an expected engine id or fingerprint is pinned and the engine
\* actually loaded does not carry it (a different value, no identity at all, or
\* the reference engine as a fall-back), loading fails with a seal-mismatch
\* error and no engine is returned
C29_SealMismatchRefuses ==
    (call # << >> /\ call.op \in {"CoreCompression", "load_engine"}) =>
        LET env == call.env
            core_loaded ==
                /\ call.op = "CoreCompression" \/ env.core_path
                /\ call.file.exists /\ call.file.loads
            \* identity of the engine the call ends up with
            loaded_id == IF core_loaded THEN call.file.lib.id ELSE None
            loaded_fp == IF core_loaded THEN call.file.lib.fp ELSE None
            attempted == core_loaded \/ call.op = "load_engine"
            mismatch ==
                \/ env.expected_id # None /\ loaded_id # env.expected_id
                \/ env.expected_fp # None /\ loaded_fp # env.expected_fp
        IN  (attempted /\ mismatch) =>
                /\ ~call.result.ok
                /\ call.result.err \in {"COMPRESSION CORE MISMATCH", "COMPRESSION CORE ALTERED"}

\* C30: constructing CoreCompression for a loadable library whose engine id and
\* fingerprint match the pinned values, or with nothing pinned, terminates and
\* returns a usable engine whose recorded engine id is the library's id
C30_ValidSealConstructs ==
    (call # << >> /\ call.op = "CoreCompression") =>
        LET env == call.env
            lib == call.file.lib
        IN  (/\ call.file.exists /\ call.file.loads
             /\ lib.id # None /\ lib.fp # None
             /\ env.expected_id \in {None, lib.id}
             /\ env.expected_fp \in {None, lib.fp})
            => /\ call.result.ok
               /\ call.result.engine_id = lib.id[1]

\* C31: the engine identity is bound into the container hash: two build_h4mk
\* runs on the same blocks, seek entries, meta and safe under engines whose
\* info() differs in engine, engine_id or fingerprint give different META
\* chunks and different VERI values; two runs under the same engine give the
\* same VERI
C31_EngineBoundIntoVeri ==
    (call # << >> /\ call.op = "build_h4mk") =>
        /\ call.same_as_loaded
        /\ Len(call.runs[1].veri) = 1 /\ Len(call.runs[2].veri) = 1
        /\ Len(call.runs[1].meta) = 1 /\ Len(call.runs[2].meta) = 1
        /\ call.engines[1] # call.engines[2] =>
              /\ call.runs[1].meta # call.runs[2].meta
              /\ call.runs[1].veri # call.runs[2].veri
        /\ call.engines[1] = call.engines[2] => call.runs[1].veri = call.runs[2].veri

\* two core engines that differ in the fingerprint only built a file with a
\* CORE block each
C31_Witness ==
    /\ call # << >>
    /\ call.op = "build_h4mk"
    /\ call.core_blocks # << >>
    /\ call.engines[1].engine = "core"
    /\ call.engines[1].engine_id = call.engines[2].engine_id
    /\ call.engines[1].engine = call.engines[2].engine
    /\ call.engines[1].fingerprint # call.engines[2].fingerprint
    /\ call.runs[1].veri # call.runs[2].veri

\* C32: iter_core_blocks given a cipher state over a container whose META
\* announces encryption surfaces a CORE block whose decryption fails as an
\* error: no item it yields is the undecrypted payload or its decompression
C32_FailedDecryptIsError ==
    (call # << >> /\ call.op = "iter_core_blocks" /\ call.keyed /\ call.encryption)
        => \A k \in 1..Len(call.items) :
              /\ call.items[k].dec = "failed" => call.items[k].raised
              /\ ~call.items[k].raised => call.items[k].src = "plaintext"

\* C33: decoding a chain drives the adapter AwaitingI -> HaveState -> Rendered:
\* decode_I is called exactly once, on the first element of the chain and
\* before any other call; apply_P is called once for each later element, in
\* chain order; finalize is called once, after all blocks
C33_AdapterCallOrder ==
    (call # << >> /\ call.op = "test_full_decode" /\ call.phase # "Error")
        => /\ call.pos = Len(call.log) \/ call.phase = "Rendered"
           /\ \A i \in 1..Len(call.log) :
                 call.log[i].fn = (IF i = 1 THEN "decode_I"
                                   ELSE IF i <= Len(call.chain) THEN "apply_P"
                                   ELSE "finalize")
           /\ \A i \in 1..Len(call.log) :
                 i <= Len(call.chain)
                    => call.log[i].opaque
                         = unwrap_core_payload(extract(call.container, call.chain[i]))[2]
           /\ (call.phase = "AwaitingI") = (call.log = << >> /\ call.chain # << >>)
           /\ (call.phase = "Rendered") = (Len(call.log) = Len(call.chain) + 1)
           /\ call.phase = "Rendered"
                 => call.log[Len(call.log)].opaque
                      = Concat([i \in 1..Len(call.chain) |-> call.log[i].opaque])

C33_Witness ==
    /\ call # << >>
    /\ call.op = "test_full_decode"
    /\ call.phase = "Rendered"
    /\ Len(call.chain) >= 2
    /\ call.log[2].fn = "apply_P"

(* C34: a decrypt call that fails AEAD verification on the in-order path
   leaves the receive state unchanged: chain_key_recv, recv_counter,
   transcript and the skipped keys are what they were before the call (so
   that the genuine message for that counter still decrypts afterwards). *)
C34_AeadFailureLeavesRecvState ==
    ( /\ last.op = "decrypt"
      /\ ~last.ok
      /\ last.path = "inorder"
      /\ last.err = "InvalidTag"
      /\ last.hdr.extra = << >> ) =>
        /\ rcv.chain_key_recv = last.pre.chain_key_recv
        /\ rcv.recv_counter = last.pre.recv_counter
        /\ rcv.transcript = last.pre.transcript
        /\ rcv.skipped_keys = last.pre.skipped_keys

(* C35: a rejected decrypt call (replay/out-of-window, too far, unexpected
   counter, transcript mismatch or AEAD failure) changes none of root_key,
   chain_key_send, chain_key_recv, remote_dh_pub and the skipped-key map, also
   when the rejected header has the dh flag set and carries a dh_pub. *)
C35_RejectedCallKeepsKeys ==
    ( /\ last.op = "decrypt"
      /\ ~last.ok
      /\ last.err \in { "replay/out-of-window", "out-of-order too far", "unexpected counter",
                        "transcript mismatch (tamper/reorder)", "InvalidTag" } ) =>
        /\ rcv.root_key = last.pre.root_key
        /\ rcv.chain_key_send = last.pre.chain_key_send
        /\ rcv.chain_key_recv = last.pre.chain_key_recv
        /\ rcv.remote_dh_pub = last.pre.remote_dh_pub
        /\ rcv.skipped_keys = last.pre.skipped_keys

(* C36: liveness under reordering: the sender encrypts N messages, N below
   root_ratchet_every, and each is delivered to the paired receiver exactly
   once, no message more than ooo_window positions away from its counter;
   then every delivery returns its plaintext and recv_counter eventually
   equals N. *)
C36_ReorderedStreamCompletes ==
    /\ [](call.rejected = {})
    /\ <>(rcv.recv_counter = StreamLen)

(* C37 (as stated): for a container built by mux_multitrack_gop,
   get_decode_chain(track, t) contains every block of the track whose pts lies
   between the pts of the selected keyframe and t and that precedes the next
   I-block of the track. *)
C37_ChainCompleteByPts ==
    (call # << >> /\ call.op = "get_decode_chain" /\ call.chain # << >>) =>
        LET core == call.core
            seed == CHOOSE i \in 1..Len(core) : core[i].chunk_index = call.chain[1]
            nextI == { n \in (seed + 1)..Len(core) :
                         core[n].track_id = call.track_id /\ core[n].blk = BLK_I }
        IN  \A i \in 1..Len(core) :
               ( /\ core[i].track_id = call.track_id
                 /\ core[seed].pts_ms <= core[i].pts_ms
                 /\ core[i].pts_ms <= call.t_ms
                 /\ \A n \in nextI : i < n )
                   => \E k \in 1..Len(call.chain) : call.chain[k] = core[i].chunk_index

(* C37 (amended): the decode chain is complete within its GOP: it contains
   every block of the track that the container holds from the selected
   keyframe on, with pts <= t, before the next I-block of the track; no such
   block is skipped. *)
C37_ChainCompleteInGop ==
    (call # << >> /\ call.op = "get_decode_chain" /\ call.chain # << >>) =>
        LET core == call.core
            seed == CHOOSE i \in 1..Len(core) : core[i].chunk_index = call.chain[1]
            nextI == { n \in (seed + 1)..Len(core) :
                         core[n].track_id = call.track_id /\ core[n].blk = BLK_I }
        IN  \A i \in seed..Len(core) :
               ( /\ core[i].track_id = call.track_id
                 /\ core[i].pts_ms <= call.t_ms
                 /\ \A n \in nextI : i < n )
                   => \E k \in 1..Len(call.chain) : call.chain[k] = core[i].chunk_index

C37_Witness ==
    /\ call # << >>
    /\ call.op = "get_decode_chain"
    /\ Len(call.chain) = 2
    /\ \E i \in 1..Len(call.core) :
          /\ call.core[i].chunk_index = call.chain[2]
          /\ call.core[i].blk = BLK_B
          /\ call.core[i].pts_ms = 100
    /\ Len(call.core) = 4

(* C38: in the container mux_multitrack_gop returns, every declared track has
   one TSEK table with exactly one entry per I-block of the track, in
   ascending pts order, and the index of each entry is the payload offset, in
   the returned container, of a CORE chunk that is an I-block of the track
   with the entry's pts. *)
C38_SeekTablesMatchCore ==
    (call # << >> /\ call.op = "_read_track_seek_tables") =>
        \A n \in 1..Len(call.in.tracks) :
            LET t == call.in.tracks[n]
                core == call.core
                keys == { i \in 1..Len(core) : core[i].track_id = t /\ core[i].blk = BLK_I }
            IN  /\ Cardinality({ i \in 1..Len(call.tsek_tids) : call.tsek_tids[i] = t }) = 1
                /\ t \in DOMAIN call.tables
                /\ Len(call.tables[t]) = Cardinality(keys)
                /\ \A k \in 1..(Len(call.tables[t]) - 1) :
                      call.tables[t][k][1] <= call.tables[t][k + 1][1]
                /\ \A k \in 1..Len(call.tables[t]) :
                      \E i \in keys : /\ core[i].chunk_index = call.tables[t][k][2]
                                      /\ core[i].pts_ms = call.tables[t][k][1]
                /\ \A i \in keys :
                      \E k \in 1..Len(call.tables[t]) : call.tables[t][k][2] = core[i].chunk_index

C38_Witness ==
    /\ call # << >>
    /\ call.op = "_read_track_seek_tables"
    /\ Len(call.in.tracks) = 2
    /\ Len(call.tables[1]) = 2
    /\ Len(call.tables[2]) = 1
    /\ call.tables[1][1][1] < call.tables[1][2][1]
    /\ \E i \in 1..Len(call.core) : call.core[i].track_id = 2 /\ call.core[i].blk = BLK_P

(* C39: SeekTable lifecycle: in any sequence of add / finalize / seek /
   serialize calls, add raises once the table is finalized and leaves the
   entries unchanged, seek raises before the table is finalized, finalize is
   idempotent, and whenever the table is finalized its entries are sorted by
   pts. *)
C39_SeekTableLifecycle ==
    (call # << >> /\ call.op = "SeekTable") =>
        /\ (call.fn = "add" /\ call.pre.finalized)
              => (call.raised /\ call.entries = call.pre.entries /\ call.finalized)
        /\ (call.fn = "add" /\ ~call.pre.finalized)
              => (~call.raised /\ Len(call.entries) = Len(call.pre.entries) + 1)
        /\ (call.fn = "seek") => (call.raised = ~call.pre.finalized)
        /\ (call.fn = "seek") => (call.entries = call.pre.entries
                                    /\ call.finalized = call.pre.finalized)
        /\ (call.fn = "finalize") => (~call.raised /\ call.finalized)
        /\ (call.fn = "finalize" /\ call.pre.finalized) => call.entries = call.pre.entries
        /\ call.finalized
              => \A i \in 1..(Len(call.entries) - 1) : call.entries[i][1] <= call.entries[i + 1][1]

C39_Witness ==
    /\ call # << >>
    /\ call.op = "SeekTable"
    /\ call.fn = "add"
    /\ call.raised
    /\ Len(call.entries) = 2
    /\ call.entries[1][2] > call.entries[2][2]

====
